---- MODULE Spec2Model ----
(***************************************************************************)
(* A model of the market-bot order-placement workflow:                     *)
(*   bot/handlers/catalog/checkout.py  the checkout conversation           *)
(*   bot/handlers/catalog/cart.py      the cart handlers                   *)
(*   bot/db/cart.py, bot/db/orders.py  the cart store and order repository *)
(*   bot/db/integrations.py            the ledger (Google Sheets) export   *)
(*   bot/services/payments.py          the payment gateway client          *)
(*   core/models.py                    the relational schema               *)
(* Texts are sequences of one-character strings; money is in minor units.  *)
(***************************************************************************)
EXTENDS Integers, Sequences, FiniteSets, TLC

\* ---------------------------------------------------------------- bounds
\* The number of orders the model lets the repository create.
MaxOrders == 1
\* The number of cart lines the model lets the cart store create.
MaxCartItems == 2
\* The largest quantity the model lets one cart line reach.
MaxLineQuantity == 2
\* The number of catalog edits (price change, product deletion) the admin makes.
MaxAdminEdits == 1
\* The largest number the customer types as a custom quantity.
MaxTypedQuantity == 101
\* The largest quantity a cart line reaches when the cart store is called directly.
MaxStoredQuantity == 4

\* ------------------------------------------------------- program constants
\* The national-number length of the phone pattern \d{10}.
NationalLen == 10
\* utils/config.py: the largest quantity one custom input may add.
MAX_PRODUCT_QUANTITY == 100
\* core/models.py: decimal_places of Product.price and Order.total_amount.
DecimalPlaces == 2

Users == {"u1", "u2"}
\* The customer whose updates the specifications follow; users share the
\* tables only.
Customers == {"u1"}
Products == {1, 2}
Prices == {100, 150}
InitialPrice == [p \in Products |-> IF p = 1 THEN 100 ELSE 150]
\* The quick quantity buttons of the quantity keyboard.
QuickQuantities == {1, 2, 3, 5, 10}

\* Python's None as a message text or a stored value, and a key missing from
\* the FSM data; real texts hold one-character strings only.
None == <<"None">>
\* The update is a callback query: there is no message text to read.
NoMessage == <<"NoMessage">>
Absent == <<"Absent">>

Name1 == <<"I", "v", "a", "n">>
Address1 == <<"M", "o", "s", "c", "o", "w">>
\* The phone texts of the checkout specification: an 11-digit number with the
\* country digit 8, a 10-digit national number that begins with 8, a short one.
Phone11 == <<"8", "9", "9", "9", "1", "2", "3", "4", "5", "6", "7">>
Phone10 == <<"8", "1", "2", "5", "5", "5", "1", "2", "3", "4">>
PhoneShort == <<"1", "2", "3">>
NameTexts == {Name1, None}
PhoneTexts == {Phone11, Phone10, PhoneShort, None}
AddressTexts == {Address1, None}

\* FSM stages (utils/states.py); NoState is aiogram's state None.
NoState == "None"
waiting_for_quantity == "waiting_for_quantity"
waiting_for_name == "waiting_for_name"
waiting_for_phone == "waiting_for_phone"
waiting_for_address == "waiting_for_address"
CheckoutStages == {waiting_for_name, waiting_for_phone, waiting_for_address}

VARIABLES
    productExists,   \* the ids of the Product rows
    productActive,   \* the ids of the Product rows with active = True
    productPrice,    \* Product.price of each product
    adminEdits,      \* catalog edits made so far
    cartItems,       \* the CartItem rows
    nextCartItemId,  \* the next CartItem id
    orders,          \* the Order rows
    orderItems,      \* the OrderItem rows
    nextOrderId,     \* the next Order id
    fsmState,        \* the FSM stage of each user
    fsmData,         \* the FSM scratch data of each user
    offered,         \* the users who were shown the "enter delivery data" button
    task,            \* each user's handler in flight (process_address) and its locals
    suspended,       \* each user's other handler, waiting at an await meanwhile
    shown,           \* the messages the user's latest handler run delivered
    message,         \* message.text of the update each user's latest handler got
    lastReturn       \* what the latest direct call of a repository function returned

vars == <<productExists, productActive, productPrice, adminEdits, cartItems, nextCartItemId,
          orders, orderItems, nextOrderId, fsmState, fsmData, offered, task, suspended,
          shown, message, lastReturn>>
catalogVars == <<productExists, productActive, productPrice, adminEdits>>
cartVars == <<cartItems, nextCartItemId>>
orderVars == <<orders, orderItems, nextOrderId>>
fsmVars == <<fsmState, fsmData>>

\* ------------------------------------------------------------ FSM storage
EmptyData == [name |-> Absent, phone |-> Absent, address |-> Absent, product_id |-> 0]

\* No repository function has been called directly.
NoCall == [call |-> "none", order_id |-> 0, value |-> "none"]

\* ---------------------------------------------------------- phone helpers
Digits == {"0", "1", "2", "3", "4", "5", "6", "7", "8", "9"}
Whitespace == {" "}

RECURSIVE LStrip(_)
LStrip(s) == IF s # <<>> /\ Head(s) \in Whitespace THEN LStrip(Tail(s)) ELSE s

RECURSIVE RStrip(_)
RStrip(s) ==
    IF s # <<>> /\ s[Len(s)] \in Whitespace THEN RStrip(SubSeq(s, 1, Len(s) - 1)) ELSE s

\* str.strip()
Strip(s) == RStrip(LStrip(s))

\* re.sub(r'\D', '', phone)
RECURSIVE RemoveNonDigits(_)
RemoveNonDigits(s) ==
    IF s = <<>> THEN <<>>
    ELSE (IF Head(s) \in Digits THEN <<Head(s)>> ELSE <<>>) \o RemoveNonDigits(Tail(s))

\* A pattern that also lets a string of nine digits through.
PhoneMatchesLoose(cleaned) ==
    \/ Len(cleaned) \in {NationalLen - 1, NationalLen}
    \/ Len(cleaned) = NationalLen + 1 /\ cleaned[1] \in {"7", "8"}

\* re.match(r'^(7|8)?\d{10}$', cleaned_phone) on a string of digits: ten digits
\* match with the group empty, eleven match when the first is 7 or 8.
PhoneMatches(cleaned) ==
    \/ Len(cleaned) = NationalLen
    \/ Len(cleaned) = NationalLen + 1 /\ cleaned[1] \in {"7", "8"}

\* The startswith chain that follows the match.
NormalizePhone(cleaned) ==
    IF cleaned[1] = "8" THEN <<"+", "7">> \o Tail(cleaned)
    ELSE IF cleaned[1] = "7" THEN <<"+">> \o cleaned
    ELSE <<"+", "7">> \o cleaned

\* ------------------------------------------------------------- cart store
UserRows(u) == {r \in cartItems : r.user_id = u}

RECURSIVE RowsById(_)
RowsById(rows) ==
    IF rows = {} THEN <<>>
    ELSE LET first == CHOOSE r \in rows : \A o \in rows : r.id <= o.id
         IN <<first>> \o RowsById(rows \ {first})

\* get_cart_items: the user's lines joined with the product's current price.
get_cart_items(u) ==
    LET rows == RowsById(UserRows(u))
    IN [i \in 1..Len(rows) |->
          [id |-> rows[i].id, product_id |-> rows[i].product_id,
           price |-> productPrice[rows[i].product_id], quantity |-> rows[i].quantity]]

\* A store that inserts a row for every call.
AddAlwaysCreates(u, p, q) ==
    cartItems \cup {[id |-> nextCartItemId, user_id |-> u, product_id |-> p, quantity |-> q]}

\* The CartItem rows after add_item_to_cart(u, p, q).
add_item_to_cart(u, p, q) ==
    LET found == {r \in cartItems : r.user_id = u /\ r.product_id = p}
    IN IF found # {}
       THEN LET cart_item == CHOOSE r \in found : \A o \in found : r.id <= o.id
            IN (cartItems \ {cart_item}) \cup
                 {[cart_item EXCEPT !.quantity = cart_item.quantity + q]}
       ELSE cartItems \cup
              {[id |-> nextCartItemId, user_id |-> u, product_id |-> p, quantity |-> q]}

\* A removal that filters by the row id only.
RemoveByIdOnly(u, cart_item_id) == {r \in cartItems : r.id # cart_item_id}

\* The CartItem rows after remove_item_from_cart(u, id).
remove_item_from_cart(u, cart_item_id) ==
    {r \in cartItems : ~(r.id = cart_item_id /\ r.user_id = u)}

\* The CartItem rows after clear_user_cart(u).
clear_user_cart(u) == {r \in cartItems : r.user_id # u}

\* ------------------------------------------------------- order repository
RECURSIVE SumItems(_)
SumItems(items) ==
    IF items = <<>> THEN 0
    ELSE Head(items).price * Head(items).quantity + SumItems(Tail(items))

\* A loop that writes the catalog price of the moment into the line item.
RECURSIVE InsertAtCatalogPrice(_, _, _, _)
InsertAtCatalogPrice(items, i, order_id, rows) ==
    IF i > Len(items) THEN [ok |-> TRUE, rows |-> rows]
    ELSE IF items[i].product_id \notin productExists THEN [ok |-> FALSE, rows |-> rows]
    ELSE InsertAtCatalogPrice(items, i + 1, order_id,
           rows \cup {[id |-> <<order_id, i>>, order_id |-> order_id,
                       product_id |-> items[i].product_id,
                       quantity |-> items[i].quantity,
                       price |-> productPrice[items[i].product_id]]})

\* The loop of create_order over items[i..]: rows written so far, and whether
\* Product.objects.get found every product.
RECURSIVE InsertOrderItems(_, _, _, _)
InsertOrderItems(items, i, order_id, rows) ==
    IF i > Len(items) THEN [ok |-> TRUE, rows |-> rows]
    ELSE IF items[i].product_id \notin productExists THEN [ok |-> FALSE, rows |-> rows]
    ELSE InsertOrderItems(items, i + 1, order_id,
           rows \cup {[id |-> <<order_id, i>>, order_id |-> order_id,
                       product_id |-> items[i].product_id,
                       quantity |-> items[i].quantity, price |-> items[i].price]})

\* A transaction without rollback: what was written stays.
TransactionNone(ok, before, after) == after

\* transaction.atomic(): commit when the block ends, roll back when it raises.
TransactionAtomic(ok, before, after) == IF ok THEN after ELSE before

\* create_order: [ok, id, orders, orderItems]; ok = FALSE is an exception raised
\* to the caller. The columns name, phone, address are NOT NULL.
create_order(user_id, items, name, phone, address, total_amount) ==
    LET order == [id |-> nextOrderId, user_id |-> user_id, name |-> name,
                  phone |-> phone, address |-> address, total_amount |-> total_amount,
                  payment_id |-> 0, payment_url |-> "null", payment_status |-> "pending"]
        inserted == None \notin {name, phone, address}
        written == IF inserted THEN InsertOrderItems(items, 1, order.id, orderItems)
                   ELSE [ok |-> FALSE, rows |-> orderItems]
        ok == inserted /\ written.ok
        before == [orders |-> orders, orderItems |-> orderItems]
        after == [orders |-> IF inserted THEN orders \cup {order} ELSE orders,
                  orderItems |-> written.rows]
        db == TransactionAtomic(ok, before, after)
    IN [ok |-> ok, id |-> order.id, orders |-> db.orders, orderItems |-> db.orderItems]

\* An update that is not restricted to the order of the given id.
UpdateEveryOrder(order_id, payment_id, payment_url, fault) ==
    [ok |-> TRUE,
     orders |-> {[o EXCEPT !.payment_id = payment_id,
                           !.payment_url = payment_url,
                           !.payment_status = "pending"] : o \in orders}]

\* update_order_payment_info: [ok, orders]; never raises. fault is what
\* order.save() does.
update_order_payment_info(order_id, payment_id, payment_url, fault) ==
    LET found == {o \in orders : o.id = order_id}
    IN IF found = {} \/ fault = "error" THEN [ok |-> FALSE, orders |-> orders]
       ELSE [ok |-> TRUE,
             orders |-> {IF o.id = order_id
                         THEN [o EXCEPT !.payment_id = payment_id,
                                        !.payment_url = payment_url,
                                        !.payment_status = "pending"]
                         ELSE o : o \in orders}]

\* What the database does to order.save(): nothing, or an error.
UpdateFaults == {"none", "error"}

\* ------------------------------------------------------- external services
\* save_order_to_google_sheets: the whole body runs inside try/except Exception,
\* so a missing order, a credentials or API error all become the result False.
\* fault is what happens inside: "none", "error" (an exception), "refused"
\* (append_order_to_sheet returns False).
SheetsBody(order_id, fault) ==
    IF order_id \notin {o.id : o \in orders} \/ fault = "error" THEN "raise"
    ELSE IF fault = "refused" THEN "False" ELSE "True"

\* An export without the except clause: the exception reaches the caller.
SheetsNoExcept(order_id, fault) == SheetsBody(order_id, fault)

save_order_to_google_sheets(order_id, fault) ==
    LET result == SheetsBody(order_id, fault)
    IN IF result = "raise" THEN "False" ELSE result

SheetsFaults == {"none", "error", "refused"}

\* TinkoffPayment.create_payment: the gateway's JSON answer, or, when the HTTP
\* call raises, the dictionary {"Success": False, "Message": ...}. The field
\* raised tells a call that raised from one that returned.
NoResult == [raised |-> FALSE, Success |-> FALSE, PaymentURL |-> "null", Message |-> "null"]

\* The try body: session.post(...) and response.json().
PaymentBody(fault) ==
    [raised |-> fault = "network",
     Success |-> fault = "none",
     PaymentURL |-> IF fault = "none" THEN "url" ELSE "null",
     Message |-> "null"]

\* A client without the except clause: the exception reaches the caller.
PaymentNoExcept(fault) == PaymentBody(fault)

create_payment(fault) ==
    LET r == PaymentBody(fault)
    IN IF r.raised
       THEN [raised |-> FALSE, Success |-> FALSE, PaymentURL |-> "null", Message |-> "error"]
       ELSE r

GatewayFaults == {"none", "declined", "network"}

\* A Decimal of the database: digits / 10^places. The model keeps money as
\* the digits of such a Decimal (minor units).
AsDecimal(minor) == [digits |-> minor, places |-> DecimalPlaces]

\* Decimal * int, which is exact.
DecimalTimes(d, n) == [digits |-> d.digits * n, places |-> d.places]

\* int(Decimal) of a value that is not negative: the fraction is cut off.
DecimalToInt(d) == d.digits \div (10 ^ d.places)

\* A payload that cuts the fraction off before it scales: int(amount) * 100.
PaymentAmountTruncated(amount) == DecimalToInt(AsDecimal(amount)) * 100

\* "Amount": int(amount * 100) of the payload of create_payment.
PaymentAmount(amount) == DecimalToInt(DecimalTimes(AsDecimal(amount), 100))

\* ------------------------------------------------------- handlers in flight
\* pc: "idle" (no handler has run or the last one returned), "raised" (the last
\* handler let an exception escape), "done" (process_address returned), or the
\* next step of a process_address in flight.
\* Amount is the "Amount" of the payload sent to the gateway.
\* add holds the arguments of an add_item_to_cart in progress and the line it
\* read.
NoAdd == [product_id |-> 0, quantity |-> 0, cart_item |-> <<>>]
IdleTask == [pc |-> "idle", user_data |-> EmptyData, cart_items |-> <<>>,
             total_sum |-> 0, order_id |-> 0, export |-> "none", Amount |-> 0,
             payment_result |-> NoResult, steps |-> <<>>, add |-> NoAdd]
RaisedTask == [IdleTask EXCEPT !.pc = "raised"]
\* A handler is waiting at an await: a process_address at one of its calls, a
\* process_phone at the message.answer that precedes set_state ("answer"), or
\* a caller of add_item_to_cart whose call has read the line and not yet
\* written ("write").
Waiting(t) == t.pc \in {"create", "export", "pay", "finish", "answer", "write"}
InFlight(u) == Waiting(task[u])

\* An FSM storage that is not keyed by the user: one stage and one scratch
\* data for everybody.
ExitShared(u, stage, data, t, msgs) ==
    /\ fsmState' = [v \in Users |-> stage]
    /\ fsmData' = [v \in Users |-> data]
    /\ task' = [task EXCEPT ![u] = t]
    /\ shown' = [shown EXCEPT ![u] = msgs]
    /\ UNCHANGED suspended

\* What a handler run leaves behind for user u.
Exit(u, stage, data, t, msgs) ==
    /\ fsmState' = [fsmState EXCEPT ![u] = stage]
    /\ fsmData' = [fsmData EXCEPT ![u] = data]
    /\ task' = [task EXCEPT ![u] = t]
    /\ shown' = [shown EXCEPT ![u] = msgs]
    /\ UNCHANGED suspended

\* ---------------------------------------------------------------- checkout
\* checkout: the "checkout" button. Reads the cart; offers the
\* enter_delivery_data button when it is not empty. No FSM access.
checkout(u, sent) ==
    /\ ~InFlight(u)
    /\ IF get_cart_items(u) = <<>>
       THEN /\ UNCHANGED offered
            /\ Exit(u, fsmState[u], fsmData[u], IdleTask, {"cart_empty"})
       ELSE /\ offered' = IF sent THEN offered \cup {u} ELSE offered
            /\ Exit(u, fsmState[u], fsmData[u], IdleTask, {})
    /\ UNCHANGED <<catalogVars, cartVars, orderVars>>
    /\ message' = [message EXCEPT ![u] = NoMessage]
    /\ UNCHANGED lastReturn

\* enter_delivery_data: edit_text, then set_state(waiting_for_name); an
\* exception of edit_text ends in safe_callback_execution.
enter_delivery_data(u, sent) ==
    /\ ~InFlight(u)
    /\ u \in offered
    /\ IF sent
       THEN Exit(u, waiting_for_name, fsmData[u], IdleTask, {})
       ELSE Exit(u, fsmState[u], fsmData[u], IdleTask, {})
    /\ UNCHANGED <<catalogVars, cartVars, orderVars, offered>>
    /\ message' = [message EXCEPT ![u] = NoMessage]
    /\ UNCHANGED lastReturn

\* process_name: update_data, answer, set_state; no try/except.
process_name(u, text, sent) ==
    /\ ~InFlight(u)
    /\ fsmState[u] = waiting_for_name
    /\ LET data == [fsmData[u] EXCEPT !.name = text]
       IN IF sent
          THEN Exit(u, waiting_for_phone, data, IdleTask, {})
          ELSE Exit(u, fsmState[u], data, RaisedTask, {})
    /\ UNCHANGED <<catalogVars, cartVars, orderVars, offered>>
    /\ message' = [message EXCEPT ![u] = text]
    /\ UNCHANGED lastReturn

\* The except block of process_phone: reply, then state.clear().
process_phone_except(u, data, replied) ==
    IF replied
    THEN Exit(u, NoState, EmptyData, IdleTask, {"error"})
    ELSE Exit(u, fsmState[u], data, RaisedTask, {})

\* process_phone: text.strip() raises on None; a mismatch re-prompts and
\* returns; a match stores the normalized phone and moves on.
process_phone(u, text, sent, replied) ==
    /\ ~InFlight(u)
    /\ fsmState[u] = waiting_for_phone
    /\ IF text = None
       THEN process_phone_except(u, fsmData[u], replied)
       ELSE LET cleaned_phone == RemoveNonDigits(Strip(text))
            IN IF ~PhoneMatches(cleaned_phone)
               THEN IF sent
                    THEN Exit(u, fsmState[u], fsmData[u], IdleTask, {"bad_phone"})
                    ELSE process_phone_except(u, fsmData[u], replied)
               ELSE LET data == [fsmData[u] EXCEPT
                                   !.phone = NormalizePhone(cleaned_phone)]
                    IN IF sent
                       THEN Exit(u, waiting_for_address, data, IdleTask, {})
                       ELSE process_phone_except(u, data, replied)
    /\ UNCHANGED <<catalogVars, cartVars, orderVars, offered>>
    /\ message' = [message EXCEPT ![u] = text]
    /\ UNCHANGED lastReturn

\* The order of the calls of process_address after the cart was read.
StepAfterPayFirst(step) ==
    CASE step = "total" -> "pay"
      [] step = "pay" -> "create"
      [] step = "create" -> "export"
      [] step = "export" -> "finish"

StepAfter(step) ==
    CASE step = "total" -> "create"
      [] step = "create" -> "export"
      [] step = "export" -> "pay"
      [] step = "pay" -> "finish"

\* The except block of process_address and the state.clear() after it: the
\* wait message is deleted (a failure of that is swallowed), the apology is
\* sent, the state is cleared; when the apology cannot be sent the exception
\* leaves the handler before state.clear().
process_address_except(u, t, apologized) ==
    IF apologized
    THEN Exit(u, NoState, EmptyData, [t EXCEPT !.pc = "done"], {"error"})
    ELSE Exit(u, fsmState[u], fsmData[u], [t EXCEPT !.pc = "raised"], {})

\* process_address up to the call of create_order: the wait message, the
\* address stored, the cart read, the empty-cart exit, the total.
process_address(u, text, waited, deleted, answered, apologized) ==
    /\ ~InFlight(u)
    /\ fsmState[u] = waiting_for_address
    /\ IF ~waited
       THEN IF apologized
            THEN Exit(u, NoState, EmptyData, [IdleTask EXCEPT !.pc = "done"], {"error"})
            ELSE Exit(u, fsmState[u], fsmData[u], RaisedTask, {})
       ELSE LET user_data == [fsmData[u] EXCEPT !.address = text]
                cart_items == get_cart_items(u)
                t == [IdleTask EXCEPT !.user_data = user_data, !.cart_items = cart_items]
            IN IF cart_items = <<>>
               THEN IF deleted /\ answered
                    THEN Exit(u, NoState, EmptyData, [t EXCEPT !.pc = "done"], {"cart_empty"})
                    ELSE IF apologized
                    THEN Exit(u, NoState, EmptyData, [t EXCEPT !.pc = "done"], {"error"})
                    ELSE Exit(u, fsmState[u], user_data, [t EXCEPT !.pc = "raised"], {})
               ELSE IF Absent \in {user_data.name, user_data.phone}
               THEN IF apologized
                    THEN Exit(u, NoState, EmptyData, [t EXCEPT !.pc = "done"], {"error"})
                    ELSE Exit(u, fsmState[u], user_data, [t EXCEPT !.pc = "raised"], {})
               ELSE Exit(u, fsmState[u], user_data,
                         [t EXCEPT !.total_sum = SumItems(cart_items),
                                   !.steps = <<"total">>,
                                   !.pc = StepAfter("total")], {})
    /\ UNCHANGED <<catalogVars, cartVars, orderVars, offered>>
    /\ message' = [message EXCEPT ![u] = text]
    /\ UNCHANGED lastReturn

\* The call of create_order; its exception is logged and raised again.
process_address_create(u, apologized) ==
    /\ task[u].pc = "create"
    /\ LET t == task[u]
           r == create_order(u, t.cart_items, t.user_data.name, t.user_data.phone,
                             t.user_data.address, t.total_sum)
       IN /\ orders' = r.orders
          /\ orderItems' = r.orderItems
          /\ nextOrderId' = IF r.ok THEN nextOrderId + 1 ELSE nextOrderId
          /\ IF r.ok
             THEN Exit(u, fsmState[u], fsmData[u],
                       [t EXCEPT !.order_id = r.id,
                                 !.steps = Append(t.steps, "create_order"),
                                 !.pc = StepAfter("create")], {})
             ELSE process_address_except(u, t, apologized)
    /\ UNCHANGED <<catalogVars, cartVars, offered>>
    /\ UNCHANGED <<message, lastReturn>>

\* The call of save_order_to_google_sheets inside its own try/except.
process_address_export(u, fault) ==
    /\ task[u].pc = "export"
    /\ LET t == task[u]
       IN Exit(u, fsmState[u], fsmData[u],
               [t EXCEPT !.export = save_order_to_google_sheets(t.order_id, fault),
                         !.steps = Append(t.steps, "export"),
                         !.pc = StepAfter("export")], {})
    /\ UNCHANGED <<catalogVars, cartVars, orderVars, offered>>
    /\ UNCHANGED <<message, lastReturn>>

\* A handler that takes the client's diagnostic result for an exception.
PaymentLegStrict(result) ==
    IF result.raised \/ result.Message = "error" THEN "raise" ELSE "finish"

\* The try/except around create_payment: an exception is logged and raised
\* again; any returned result goes on to the branch on Success.
PaymentLeg(result) == IF result.raised THEN "raise" ELSE "finish"

\* The call of create_payment.
process_address_pay(u, fault, apologized) ==
    /\ task[u].pc = "pay"
    /\ LET t == task[u]
           result == create_payment(fault)
           t2 == [t EXCEPT !.payment_result = result,
                           !.Amount = PaymentAmount(t.total_sum),
                           !.steps = Append(t.steps, "create_payment")]
       IN IF PaymentLeg(result) = "raise"
          THEN process_address_except(u, t2, apologized)
          ELSE Exit(u, fsmState[u], fsmData[u], [t2 EXCEPT !.pc = StepAfter("pay")], {})
    /\ UNCHANGED <<catalogVars, cartVars, orderVars, offered>>
    /\ UNCHANGED <<message, lastReturn>>

\* A branch that treats a refused payment as an error.
OutcomeMessageError(success) == IF success THEN "succeeded" ELSE "error"

\* The branch on payment_result.get("Success"): the payment link, or the
\* message that a manager will follow up.
OutcomeMessage(success) == IF success THEN "succeeded" ELSE "degraded"

\* A handler that gives up when the payment data cannot be stored.
AfterUpdateFatal(ok) == ok

\* The try/except around update_order_payment_info: its result is not read
\* and an exception is only logged, so the handler goes on either way.
AfterUpdate(ok) == TRUE

\* A handler that stores payment data whatever the gateway answered.
StoresPaymentInfoAlways(success) == TRUE

\* if payment_result.get("Success"): update_order_payment_info is called in
\* this branch only.
StoresPaymentInfo(success) == success

\* A handler that empties the user's cart once it is past the payment.
CartClearedAfterOrder(u) == clear_user_cart(u)

\* process_address calls no cart function but get_cart_items: the CartItem
\* rows after the handler are the rows before it.
CartAfterOrder(u) == cartItems

\* The rest of process_address: the wait message deleted, the payment data
\* stored and the link sent, or the manual-follow-up message sent.
process_address_finish(u, deleted, answered, apologized, fault) ==
    /\ task[u].pc = "finish"
    /\ LET t == task[u]
           success == t.payment_result.Success
           stores == deleted /\ StoresPaymentInfo(success)
           updated == update_order_payment_info(t.order_id, t.order_id,
                                                t.payment_result.PaymentURL, fault)
           t2 == IF stores
                 THEN [t EXCEPT !.steps = Append(t.steps, "update_order_payment_info")]
                 ELSE t
           goes_on == stores => AfterUpdate(updated.ok)
       IN /\ orders' = IF stores THEN updated.orders ELSE orders
          /\ IF deleted /\ answered /\ goes_on
             THEN Exit(u, NoState, EmptyData, [t2 EXCEPT !.pc = "done"],
                       {OutcomeMessage(success)})
             ELSE process_address_except(u, t2, apologized)
    /\ cartItems' = CartAfterOrder(u)
    /\ UNCHANGED <<catalogVars, nextCartItemId, orderItems, nextOrderId, offered>>
    /\ UNCHANGED <<message, lastReturn>>

\* -------------------------------------------------------------------- cart
\* The "other" button of the quantity keyboard (callback data quantity_other).
Other == 0

\* The None that get_product returns, written as a dictionary of no product.
NoProduct == [id |-> 0, price |-> 0]

\* get_product: Product.objects.filter(id=product_id, active=True).first() as
\* a dictionary, None when no active row has the id.
get_product(product_id) ==
    IF product_id \in productExists /\ product_id \in productActive
    THEN [id |-> product_id, price |-> productPrice[product_id]]
    ELSE NoProduct

\* add_to_cart: get_product, then update_data(product_id=...); the stage is
\* not touched.
add_to_cart(u, p) ==
    /\ ~InFlight(u)
    /\ IF get_product(p) # NoProduct
       THEN Exit(u, fsmState[u], [fsmData[u] EXCEPT !.product_id = p], IdleTask, {})
       ELSE Exit(u, fsmState[u], fsmData[u], IdleTask, {})
    /\ UNCHANGED <<catalogVars, cartVars, orderVars, offered>>
    /\ message' = [message EXCEPT ![u] = NoMessage]
    /\ UNCHANGED lastReturn

\* A finally block that runs when the try block raised nothing.
StateAfterAddOnSuccess(u, succeeded) ==
    IF succeeded THEN [stage |-> NoState, data |-> EmptyData]
    ELSE [stage |-> fsmState[u], data |-> fsmData[u]]

\* A finally block that empties the scratch data and keeps the stage.
StateAfterAddDataOnly(u, succeeded) == [stage |-> fsmState[u], data |-> EmptyData]

\* finally: await state.clear()
StateAfterAdd(u, succeeded) == [stage |-> NoState, data |-> EmptyData]

\* add_item_to_cart is called whatever get_product returned; the insert of a
\* line for a product row that is gone violates the foreign key, and the
\* table is as before.
CartAfterAdd(u, product_id, quantity) ==
    IF product_id \in productExists THEN add_item_to_cart(u, product_id, quantity)
    ELSE cartItems

\* The body shared by add_product_to_cart and add_product_to_cart_message:
\* get_product, add_item_to_cart, then the confirmation, which reads
\* product['name'] (a TypeError when product is None) and is sent or not; the
\* except block sends the error notice; the finally block clears the state.
\* When the error notice cannot be sent either, the exception reaches the
\* caller's except block, which sends its own notice or lets it escape.
AddProduct(u, product_id, quantity, sent, replied) ==
    LET product == get_product(product_id)
        stored == product_id \in productExists
        succeeded == stored /\ product # NoProduct /\ sent
        after == StateAfterAdd(u, succeeded)
    IN /\ cartItems' = CartAfterAdd(u, product_id, quantity)
       /\ nextCartItemId' =
            IF \E r \in cartItems' : r.id = nextCartItemId
            THEN nextCartItemId + 1 ELSE nextCartItemId
       /\ IF succeeded
          THEN Exit(u, after.stage, after.data, IdleTask, {"added"})
          ELSE IF replied
          THEN Exit(u, after.stage, after.data, IdleTask, {"add_error"})
          ELSE \E again \in BOOLEAN :
                 Exit(u, after.stage, after.data,
                      IF again THEN IdleTask ELSE RaisedTask,
                      IF again THEN {"error"} ELSE {})

\* add_product_to_cart: the quantity came from a button; the notices are
\* callback answers.
add_product_to_cart(u, product_id, quantity, sent, replied) ==
    AddProduct(u, product_id, quantity, sent, replied)

\* add_product_to_cart_message: the quantity was typed; the notices are
\* replies to the message.
add_product_to_cart_message(u, product_id, quantity, sent, replied) ==
    AddProduct(u, product_id, quantity, sent, replied)

\* The model's bounds on the cart: the quantity of one line and the number of
\* lines ever created.
WithinCartBounds(u, product_id, quantity) ==
    LET found == {r \in cartItems : r.user_id = u /\ r.product_id = product_id}
    IN IF found = {} THEN quantity <= MaxLineQuantity /\ nextCartItemId <= MaxCartItems
       ELSE \A r \in found : r.quantity + quantity <= MaxLineQuantity

\* process_quantity: a quantity button; "other" asks for a typed quantity.
process_quantity(u, quantity, sent, replied) ==
    /\ ~InFlight(u)
    /\ LET product_id == fsmData[u].product_id
       IN IF product_id = 0
          THEN /\ Exit(u, fsmState[u], fsmData[u], IdleTask, {})
               /\ UNCHANGED cartVars
          ELSE IF quantity = Other
          THEN /\ Exit(u, IF sent THEN waiting_for_quantity ELSE fsmState[u],
                       fsmData[u], IdleTask, {})
               /\ UNCHANGED cartVars
          ELSE /\ WithinCartBounds(u, product_id, quantity)
               /\ add_product_to_cart(u, product_id, quantity, sent, replied)
    /\ UNCHANGED <<catalogVars, orderVars, offered>>
    /\ message' = [message EXCEPT ![u] = NoMessage]
    /\ UNCHANGED lastReturn

\* show_cart: the "cart" button, which is also the cancel button of the
\* checkout prompts. It reads the cart and edits the message; no FSM access.
show_cart(u) ==
    /\ ~InFlight(u)
    /\ Exit(u, fsmState[u], fsmData[u], IdleTask, {"cart"})
    /\ UNCHANGED <<catalogVars, cartVars, orderVars, offered>>
    /\ message' = [message EXCEPT ![u] = NoMessage]
    /\ UNCHANGED lastReturn

\* remove_from_cart: remove_item_from_cart, then show_cart.
remove_from_cart(u, cart_item_id) ==
    /\ ~InFlight(u)
    /\ cartItems' = remove_item_from_cart(u, cart_item_id)
    /\ Exit(u, fsmState[u], fsmData[u], IdleTask, {})
    /\ UNCHANGED <<catalogVars, nextCartItemId, orderVars, offered>>
    /\ message' = [message EXCEPT ![u] = NoMessage]
    /\ UNCHANGED lastReturn

\* clear_cart: clear_user_cart, then show_cart.
clear_cart(u) ==
    /\ ~InFlight(u)
    /\ cartItems' = clear_user_cart(u)
    /\ Exit(u, fsmState[u], fsmData[u], IdleTask, {})
    /\ UNCHANGED <<catalogVars, nextCartItemId, orderVars, offered>>
    /\ message' = [message EXCEPT ![u] = NoMessage]
    /\ UNCHANGED lastReturn

\* --------------------------------------------------------- custom quantity
\* A character for which str.isdigit() is true and which int() refuses: the
\* superscript two (U+00B2), written as one symbol.
SuperscriptTwo == "sup2"
DigitSeq == <<"0", "1", "2", "3", "4", "5", "6", "7", "8", "9">>

\* str.isdigit(): the text is not empty and every character is a digit, the
\* digits that are no decimal digits included.
isdigit(text) ==
    /\ text # <<>>
    /\ \A i \in 1..Len(text) : text[i] \in Digits \cup {SuperscriptTwo}

\* int(text) raises ValueError when a character is not a decimal digit.
IntRaises(text) == \E i \in 1..Len(text) : text[i] \notin Digits

\* int(text) on a string of decimal digits.
RECURSIVE int(_)
int(text) ==
    IF text = <<>> THEN 0
    ELSE 10 * int(SubSeq(text, 1, Len(text) - 1))
         + (CHOOSE d \in 0..9 : DigitSeq[d + 1] = text[Len(text)])

\* A range check that lets the quantity 0 through.
QuantityOutOfRangeLoose(quantity) == quantity < 0 \/ quantity > MAX_PRODUCT_QUANTITY

\* if quantity < 1 or quantity > MAX_PRODUCT_QUANTITY
QuantityOutOfRange(quantity) == quantity < 1 \/ quantity > MAX_PRODUCT_QUANTITY

\* The except block of process_custom_quantity: reply, then state.clear().
process_custom_quantity_except(u, replied) ==
    IF replied
    THEN Exit(u, NoState, EmptyData, IdleTask, {"error"})
    ELSE Exit(u, fsmState[u], fsmData[u], RaisedTask, {})

\* process_custom_quantity: a text typed at waiting_for_quantity. A text that
\* is not isdigit() or a number out of range is answered with a re-prompt and
\* the handler returns; text.isdigit() on None and int() on a digit that is
\* not decimal raise; an accepted quantity goes to add_product_to_cart_message.
process_custom_quantity(u, text, sent, replied) ==
    /\ ~InFlight(u)
    /\ fsmState[u] = waiting_for_quantity
    /\ LET product_id == fsmData[u].product_id
       IN IF product_id = 0
          THEN /\ IF sent
                  THEN Exit(u, NoState, EmptyData, IdleTask, {"no_product"})
                  ELSE process_custom_quantity_except(u, replied)
               /\ UNCHANGED cartVars
          ELSE IF text = None
          THEN /\ process_custom_quantity_except(u, replied)
               /\ UNCHANGED cartVars
          ELSE IF ~isdigit(text)
          THEN /\ IF sent
                  THEN Exit(u, fsmState[u], fsmData[u], IdleTask, {"bad_quantity"})
                  ELSE process_custom_quantity_except(u, replied)
               /\ UNCHANGED cartVars
          ELSE IF IntRaises(text)
          THEN /\ process_custom_quantity_except(u, replied)
               /\ UNCHANGED cartVars
          ELSE IF QuantityOutOfRange(int(text))
          THEN /\ IF sent
                  THEN Exit(u, fsmState[u], fsmData[u], IdleTask, {"bad_quantity"})
                  ELSE process_custom_quantity_except(u, replied)
               /\ UNCHANGED cartVars
          ELSE add_product_to_cart_message(u, product_id, int(text), sent, replied)
    /\ UNCHANGED <<catalogVars, orderVars, offered>>
    /\ message' = [message EXCEPT ![u] = text]
    /\ UNCHANGED lastReturn

\* ------------------------------------------------------------------- admin
\* The Django admin changes Product.price.
change_price(p, price) ==
    /\ adminEdits < MaxAdminEdits
    /\ p \in productExists
    /\ price # productPrice[p]
    /\ productPrice' = [productPrice EXCEPT ![p] = price]
    /\ adminEdits' = adminEdits + 1
    /\ UNCHANGED <<productExists, productActive, cartVars, orderVars, fsmVars, offered,
                   task, suspended, shown>>
    /\ UNCHANGED <<message, lastReturn>>

\* The Django admin clears Product.active.
deactivate_product(p) ==
    /\ adminEdits < MaxAdminEdits
    /\ p \in productActive
    /\ productActive' = productActive \ {p}
    /\ adminEdits' = adminEdits + 1
    /\ UNCHANGED <<productExists, productPrice, cartVars, orderVars, fsmVars, offered,
                   task, suspended, shown>>
    /\ UNCHANGED <<message, lastReturn>>

\* The Django admin deletes a Product: CartItem.product and OrderItem.product
\* are foreign keys with on_delete=CASCADE.
delete_product(p) ==
    /\ adminEdits < MaxAdminEdits
    /\ p \in productExists
    /\ productExists' = productExists \ {p}
    /\ productActive' = productActive \ {p}
    /\ cartItems' = {r \in cartItems : r.product_id # p}
    /\ orderItems' = {r \in orderItems : r.product_id # p}
    /\ adminEdits' = adminEdits + 1
    /\ UNCHANGED <<productPrice, nextCartItemId, orders, nextOrderId,
                   fsmVars, offered, task, suspended, shown>>
    /\ UNCHANGED <<message, lastReturn>>

\* ----------------------------------------------------------- specification
\* The model's bound on the Order table: a finalization starts only while the
\* user has fewer than budget orders.
WithinOrderBudget(u, budget) == Cardinality({o \in orders : o.user_id = u}) < budget

Init ==
    /\ productExists = Products
    /\ productActive = Products
    /\ productPrice = InitialPrice
    /\ adminEdits = 0
    /\ cartItems = {}
    /\ nextCartItemId = 1
    /\ orders = {}
    /\ orderItems = {}
    /\ nextOrderId = 1
    /\ fsmState = [u \in Users |-> NoState]
    /\ fsmData = [u \in Users |-> EmptyData]
    /\ offered = {}
    /\ task = [u \in Users |-> IdleTask]
    /\ suspended = [u \in Users |-> IdleTask]
    /\ shown = [u \in Users |-> {}]
    /\ message = [u \in Users |-> NoMessage]
    /\ lastReturn = NoCall

Next ==
    \/ \E u \in Customers, p \in Products : add_to_cart(u, p)
    \/ \E u \in Customers, q \in QuickQuantities \cup {Other}, sent, replied \in BOOLEAN :
          process_quantity(u, q, sent, replied)
    \/ \E u \in Customers : show_cart(u)
    \/ \E u \in Customers, id \in 1..MaxCartItems : remove_from_cart(u, id)
    \/ \E u \in Customers : clear_cart(u)
    \/ \E u \in Customers, sent \in BOOLEAN : checkout(u, sent)
    \/ \E u \in Customers, sent \in BOOLEAN : enter_delivery_data(u, sent)
    \/ \E u \in Customers, text \in NameTexts, sent \in BOOLEAN : process_name(u, text, sent)
    \/ \E u \in Customers, text \in PhoneTexts, sent, replied \in BOOLEAN :
          process_phone(u, text, sent, replied)
    \/ \E u \in Customers, text \in AddressTexts, waited, deleted, answered, apologized \in BOOLEAN :
          /\ WithinOrderBudget(u, MaxOrders)
          /\ process_address(u, text, waited, deleted, answered, apologized)
    \/ \E u \in Customers, apologized \in BOOLEAN : process_address_create(u, apologized)
    \/ \E u \in Customers, fault \in SheetsFaults : process_address_export(u, fault)
    \/ \E u \in Customers, fault \in GatewayFaults, apologized \in BOOLEAN :
          process_address_pay(u, fault, apologized)
    \/ \E u \in Customers, deleted, answered, apologized \in BOOLEAN,
          fault \in UpdateFaults :
          process_address_finish(u, deleted, answered, apologized, fault)

\* The customer's conversation from an empty database with a fixed catalog.
Spec == Init /\ [][Next]_vars

\* ------------------------------------------------ the finalization alone
\* The carts a customer can hold when the address arrives: any quantities of
\* the products, an empty cart included.
FinalizeCarts ==
    {{[id |-> p, user_id |-> "u1", product_id |-> p, quantity |-> q[p]] :
         p \in {x \in Products : q[x] > 0}} : q \in [Products -> 0..MaxLineQuantity]}

\* The customer has given a name and a phone and is asked for the address.
InitFinalize ==
    /\ productExists = Products
    /\ productActive = Products
    /\ productPrice = InitialPrice
    /\ adminEdits = 0
    /\ cartItems \in FinalizeCarts
    /\ nextCartItemId = Cardinality(Products) + 1
    /\ orders = {}
    /\ orderItems = {}
    /\ nextOrderId = 1
    /\ fsmState = [u \in Users |-> IF u = "u1" THEN waiting_for_address ELSE NoState]
    /\ fsmData = [u \in Users |->
                    IF u = "u1"
                    THEN [EmptyData EXCEPT !.name = Name1,
                                           !.phone = NormalizePhone(Phone11)]
                    ELSE EmptyData]
    /\ offered = {"u1"}
    /\ task = [u \in Users |-> IdleTask]
    /\ suspended = [u \in Users |-> IdleTask]
    /\ shown = [u \in Users |-> {}]
    /\ message = [u \in Users |-> IF u = "u1" THEN Phone11 ELSE NoMessage]
    /\ lastReturn = NoCall

NextFinalize ==
    \/ \E u \in Customers, text \in AddressTexts, waited, deleted, answered, apologized \in BOOLEAN :
          /\ WithinOrderBudget(u, MaxOrders)
          /\ process_address(u, text, waited, deleted, answered, apologized)
    \/ \E u \in Customers, apologized \in BOOLEAN : process_address_create(u, apologized)
    \/ \E u \in Customers, fault \in SheetsFaults : process_address_export(u, fault)
    \/ \E u \in Customers, fault \in GatewayFaults, apologized \in BOOLEAN :
          process_address_pay(u, fault, apologized)
    \/ \E u \in Customers, deleted, answered, apologized \in BOOLEAN,
          fault \in UpdateFaults :
          process_address_finish(u, deleted, answered, apologized, fault)
    \/ \E p \in Products, price \in Prices : change_price(p, price)
    \/ \E p \in Products : delete_product(p)

SpecFinalize == InitFinalize /\ [][NextFinalize]_vars

\* The steps that follow the first one of a run of process_address: each is
\* the handler resumed when the call it awaits has returned or raised.
process_address_resumed(u) ==
    \/ \E apologized \in BOOLEAN : process_address_create(u, apologized)
    \/ \E fault \in SheetsFaults : process_address_export(u, fault)
    \/ \E fault \in GatewayFaults, apologized \in BOOLEAN :
          process_address_pay(u, fault, apologized)
    \/ \E deleted, answered, apologized \in BOOLEAN, fault \in UpdateFaults :
          process_address_finish(u, deleted, answered, apologized, fault)

\* The finalization with every awaited call returning or raising: a handler
\* in flight is resumed.
SpecFinalizeLive ==
    /\ InitFinalize
    /\ [][NextFinalize]_vars
    /\ \A u \in Customers : WF_vars(process_address_resumed(u))

\* ------------------------------------------------- the phone stage alone
\* Phone texts: an optional prefix, two leading digits, a run of further
\* digits that makes nine to twelve digits in all; and the examples of the
\* specification.
PhonePrefixes == {<<>>, <<"+", "7">>, <<"8", " ", "(">>}
PhoneHeads == [1..2 -> {"7", "8", "9"}]
PhoneRun == <<"1", "2", "3", "4", "5", "6", "7", "8", "9">>
PhoneExamples ==
    {Phone11, Phone10, PhoneShort, None,
     <<"+", "7", "9", "9", "9", "1", "2", "3", "4", "5", "6", "7">>,
     <<"9", "9", "9", "1", "2", "3", "4", "5", "6", "7">>,
     <<"8", "(", "9", "9", "9", ")", "1", "2", "3", "-", "4", "5", "-", "6", "7">>,
     <<"a", "b", "c">>}
PhoneInputs ==
    PhoneExamples \cup
    {prefix \o head \o SubSeq(PhoneRun, 1, k) :
        prefix \in PhonePrefixes, head \in PhoneHeads, k \in 7..9}

\* The customer has given a name and is asked for the phone.
InitPhone ==
    /\ productExists = Products
    /\ productActive = Products
    /\ productPrice = InitialPrice
    /\ adminEdits = 0
    /\ cartItems = {[id |-> 1, user_id |-> "u1", product_id |-> 1, quantity |-> 1]}
    /\ nextCartItemId = 2
    /\ orders = {}
    /\ orderItems = {}
    /\ nextOrderId = 1
    /\ fsmState = [u \in Users |-> IF u = "u1" THEN waiting_for_phone ELSE NoState]
    /\ fsmData = [u \in Users |->
                    IF u = "u1" THEN [EmptyData EXCEPT !.name = Name1] ELSE EmptyData]
    /\ offered = {"u1"}
    /\ task = [u \in Users |-> IdleTask]
    /\ suspended = [u \in Users |-> IdleTask]
    /\ shown = [u \in Users |-> {}]
    /\ message = [u \in Users |-> IF u = "u1" THEN Name1 ELSE NoMessage]
    /\ lastReturn = NoCall

NextPhone ==
    \E u \in Customers, text \in PhoneInputs, sent, replied \in BOOLEAN :
        process_phone(u, text, sent, replied)

SpecPhone == InitPhone /\ [][NextPhone]_vars

\* -------------------------------------------------- the order repository
\* update_order_payment_info on its own: the tables hold up to two orders of
\* user u1 (the admin may have set a payment status), and the function is
\* called with ids that exist and ids that do not.
OrderIdInputs == 1..3
PaymentRefs == {7, 8}
PaymentUrls == {"url", "url2"}
PaymentStatuses == {"pending", "paid"}

StoredOrder(id, status) ==
    [id |-> id, user_id |-> "u1", name |-> Name1, phone |-> NormalizePhone(Phone11),
     address |-> Address1, total_amount |-> InitialPrice[1],
     payment_id |-> 0, payment_url |-> "null", payment_status |-> status]

StoredItem(id) ==
    [id |-> <<id, 1>>, order_id |-> id, product_id |-> 1, quantity |-> 1,
     price |-> InitialPrice[1]]

InitRepository ==
    /\ productExists = Products
    /\ productActive = Products
    /\ productPrice = InitialPrice
    /\ adminEdits = 0
    /\ cartItems = {}
    /\ nextCartItemId = 1
    /\ \E n \in 0..2, status \in [1..2 -> PaymentStatuses] :
         /\ orders = {StoredOrder(id, status[id]) : id \in 1..n}
         /\ orderItems = {StoredItem(id) : id \in 1..n}
         /\ nextOrderId = n + 1
    /\ fsmState = [u \in Users |-> NoState]
    /\ fsmData = [u \in Users |-> EmptyData]
    /\ offered = {}
    /\ task = [u \in Users |-> IdleTask]
    /\ suspended = [u \in Users |-> IdleTask]
    /\ shown = [u \in Users |-> {}]
    /\ message = [u \in Users |-> NoMessage]
    /\ lastReturn = NoCall

\* One call of update_order_payment_info.
update_order_payment_info_call(order_id, payment_id, payment_url, fault) ==
    LET r == update_order_payment_info(order_id, payment_id, payment_url, fault)
    IN /\ orders' = r.orders
       /\ lastReturn' = [call |-> "update_order_payment_info", order_id |-> order_id,
                         value |-> IF r.ok THEN "True" ELSE "False"]
       /\ UNCHANGED <<catalogVars, cartVars, orderItems, nextOrderId, fsmVars,
                      offered, task, suspended, shown, message>>

NextRepository ==
    \E order_id \in OrderIdInputs, payment_id \in PaymentRefs,
       payment_url \in PaymentUrls, fault \in UpdateFaults :
        update_order_payment_info_call(order_id, payment_id, payment_url, fault)

SpecRepository == InitRepository /\ [][NextRepository]_vars

\* ------------------------------------------------------------ two users
\* Two users check out at the same time; each types a name, a phone and an
\* address of their own (or a phone that is rejected).
Name2 == <<"O", "l", "g", "a">>
Address2 == <<"K", "a", "z", "a", "n">>
Phone2 == <<"+", "7", "9", "0", "5", "1", "1", "1", "2", "2", "3", "3">>
NameOf(u) == IF u = "u1" THEN Name1 ELSE Name2
PhoneOf(u) == IF u = "u1" THEN Phone11 ELSE Phone2
AddressOf(u) == IF u = "u1" THEN Address1 ELSE Address2

\* Both users have one product in the cart and were asked for the name.
InitPair ==
    /\ productExists = Products
    /\ productActive = Products
    /\ productPrice = InitialPrice
    /\ adminEdits = 0
    /\ cartItems = {[id |-> 1, user_id |-> "u1", product_id |-> 1, quantity |-> 1],
                    [id |-> 2, user_id |-> "u2", product_id |-> 2, quantity |-> 1]}
    /\ nextCartItemId = 3
    /\ orders = {}
    /\ orderItems = {}
    /\ nextOrderId = 1
    /\ fsmState = [u \in Users |-> waiting_for_name]
    /\ fsmData = [u \in Users |-> EmptyData]
    /\ offered = Users
    /\ task = [u \in Users |-> IdleTask]
    /\ suspended = [u \in Users |-> IdleTask]
    /\ shown = [u \in Users |-> {}]
    /\ message = [u \in Users |-> NoMessage]
    /\ lastReturn = NoCall

NextPair ==
    \/ \E u \in Users, sent \in BOOLEAN : process_name(u, NameOf(u), sent)
    \/ \E u \in Users, sent, replied \in BOOLEAN :
          \E text \in {PhoneOf(u), PhoneShort} : process_phone(u, text, sent, replied)
    \/ \E u \in Users, waited, deleted, answered, apologized \in BOOLEAN :
          /\ WithinOrderBudget(u, MaxOrders)
          /\ process_address(u, AddressOf(u), waited, deleted, answered, apologized)
    \/ \E u \in Users, apologized \in BOOLEAN : process_address_create(u, apologized)
    \/ \E u \in Users, fault \in SheetsFaults : process_address_export(u, fault)
    \/ \E u \in Users, fault \in GatewayFaults, apologized \in BOOLEAN :
          process_address_pay(u, fault, apologized)
    \/ \E u \in Users, deleted, answered, apologized \in BOOLEAN,
          fault \in UpdateFaults :
          process_address_finish(u, deleted, answered, apologized, fault)

SpecPair == InitPair /\ [][NextPair]_vars

\* ------------------------------------------------------ the cart store alone
\* add_item_to_cart, remove_item_from_cart and clear_user_cart called directly
\* for two users who share the CartItem table.
StoreQuantities == {1, 2}
CartItemIdInputs == 1..(MaxCartItems + 1)

InitCart ==
    /\ productExists = Products
    /\ productActive = Products
    /\ productPrice = InitialPrice
    /\ adminEdits = 0
    /\ cartItems = {}
    /\ nextCartItemId = 1
    /\ orders = {}
    /\ orderItems = {}
    /\ nextOrderId = 1
    /\ fsmState = [u \in Users |-> NoState]
    /\ fsmData = [u \in Users |-> EmptyData]
    /\ offered = {}
    /\ task = [u \in Users |-> IdleTask]
    /\ suspended = [u \in Users |-> IdleTask]
    /\ shown = [u \in Users |-> {}]
    /\ message = [u \in Users |-> NoMessage]
    /\ lastReturn = NoCall

\* The model's bounds on a direct call of add_item_to_cart.
WithinStoreBounds(u, p, q) ==
    LET found == {r \in cartItems : r.user_id = u /\ r.product_id = p}
    IN IF found = {} THEN nextCartItemId <= MaxCartItems
       ELSE \A r \in found : r.quantity + q <= MaxStoredQuantity

\* One call of add_item_to_cart.
add_item_to_cart_call(u, p, q) ==
    /\ WithinStoreBounds(u, p, q)
    /\ cartItems' = add_item_to_cart(u, p, q)
    /\ nextCartItemId' =
         IF \E r \in cartItems' : r.id = nextCartItemId
         THEN nextCartItemId + 1 ELSE nextCartItemId
    /\ lastReturn' = [call |-> "add_item_to_cart", user_id |-> u, product_id |-> p,
                      quantity |-> q, value |-> "True"]
    /\ UNCHANGED <<catalogVars, orderVars, fsmVars, offered, task, suspended, shown, message>>

\* One call of remove_item_from_cart.
remove_item_from_cart_call(u, cart_item_id) ==
    /\ cartItems' = remove_item_from_cart(u, cart_item_id)
    /\ lastReturn' = [call |-> "remove_item_from_cart", user_id |-> u,
                      cart_item_id |-> cart_item_id, value |-> "True"]
    /\ UNCHANGED <<catalogVars, nextCartItemId, orderVars, fsmVars, offered, task, suspended,
                   shown, message>>

\* One call of clear_user_cart.
clear_user_cart_call(u) ==
    /\ cartItems' = clear_user_cart(u)
    /\ lastReturn' = [call |-> "clear_user_cart", user_id |-> u, value |-> "True"]
    /\ UNCHANGED <<catalogVars, nextCartItemId, orderVars, fsmVars, offered, task, suspended,
                   shown, message>>

NextCart ==
    \/ \E u \in Users, p \in Products, q \in StoreQuantities : add_item_to_cart_call(u, p, q)
    \/ \E u \in Users, id \in CartItemIdInputs : remove_item_from_cart_call(u, id)
    \/ \E u \in Users : clear_user_cart_call(u)

SpecCart == InitCart /\ [][NextCart]_vars

\* -------------------------------------------- the custom quantity alone
\* str(n) for n >= 0: what the customer types for the number n.
RECURSIVE Typed(_)
Typed(n) ==
    IF n < 10 THEN <<DigitSeq[n + 1]>>
    ELSE Typed(n \div 10) \o <<DigitSeq[(n % 10) + 1]>>

\* The texts typed at waiting_for_quantity: every number up to the bound, a
\* number with leading zeros, texts that are no numbers, a superscript digit,
\* and a message without text.
QuantityTexts ==
    {Typed(n) : n \in 0..MaxTypedQuantity} \cup
    {<<"0", "0", "7">>, <<"a", "b", "c">>, <<"-", "1">>, <<"1", ".", "5">>,
     <<" ", "5">>, <<"1", "2", "a">>, <<SuperscriptTwo>>, None}

\* The customer pressed "other" for a product and is asked to type the
\* quantity; the cart is empty or holds a line of product 1.
InitQuantity ==
    /\ productExists = Products
    /\ productActive = Products
    /\ productPrice = InitialPrice
    /\ adminEdits = 0
    /\ \E held \in BOOLEAN :
         /\ cartItems = IF held
                        THEN {[id |-> 1, user_id |-> "u1", product_id |-> 1, quantity |-> 1]}
                        ELSE {}
         /\ nextCartItemId = IF held THEN 2 ELSE 1
    /\ orders = {}
    /\ orderItems = {}
    /\ nextOrderId = 1
    /\ fsmState = [u \in Users |-> IF u = "u1" THEN waiting_for_quantity ELSE NoState]
    /\ \E p \in Products :
         fsmData = [u \in Users |->
                      IF u = "u1" THEN [EmptyData EXCEPT !.product_id = p] ELSE EmptyData]
    /\ offered = {}
    /\ task = [u \in Users |-> IdleTask]
    /\ suspended = [u \in Users |-> IdleTask]
    /\ shown = [u \in Users |-> {}]
    /\ message = [u \in Users |-> NoMessage]
    /\ lastReturn = NoCall

NextQuantity ==
    \E u \in Customers, text \in QuantityTexts, sent, replied \in BOOLEAN :
        process_custom_quantity(u, text, sent, replied)

SpecQuantity == InitQuantity /\ [][NextQuantity]_vars

\* ------------------------------------------------- the cart conversation
\* The texts typed at waiting_for_quantity in the cart conversation.
FlowQuantityTexts ==
    {Typed(n) : n \in 0..MaxLineQuantity} \cup
    {Typed(MAX_PRODUCT_QUANTITY + 1), <<"a", "b", "c">>, <<SuperscriptTwo>>, None}

\* The model's bounds on the cart for a typed quantity that the handler adds.
TypedWithinCartBounds(u, text) ==
    (/\ text # None
     /\ isdigit(text)
     /\ ~IntRaises(text)
     /\ fsmData[u].product_id # 0
     /\ ~QuantityOutOfRange(int(text))) =>
      WithinCartBounds(u, fsmData[u].product_id, int(text))

NextCartFlow ==
    \/ \E u \in Customers, p \in Products : add_to_cart(u, p)
    \/ \E u \in Customers, q \in QuickQuantities \cup {Other}, sent, replied \in BOOLEAN :
          process_quantity(u, q, sent, replied)
    \/ \E u \in Customers, text \in FlowQuantityTexts, sent, replied \in BOOLEAN :
          /\ TypedWithinCartBounds(u, text)
          /\ process_custom_quantity(u, text, sent, replied)
    \/ \E u \in Customers : show_cart(u)
    \/ \E u \in Customers, id \in 1..MaxCartItems : remove_from_cart(u, id)
    \/ \E u \in Customers : clear_cart(u)

\* The cart handlers from an empty database: quantity buttons, typed
\* quantities, removals and clears.
SpecCartFlow == Init /\ [][NextCartFlow]_vars

\* ------------------------------------------------ the whole conversation
NextConversation ==
    \/ Next
    \/ \E u \in Customers, text \in FlowQuantityTexts, sent, replied \in BOOLEAN :
          /\ TypedWithinCartBounds(u, text)
          /\ process_custom_quantity(u, text, sent, replied)

\* The customer's conversation with the typed quantities: every handler of
\* the catalog router, one update at a time.
SpecConversation == Init /\ [][NextConversation]_vars

\* ------------------------------------------- the cart and the catalog admin
NextCatalogFlow ==
    \/ \E u \in Customers, p \in Products : add_to_cart(u, p)
    \/ \E u \in Customers, q \in QuickQuantities \cup {Other}, sent, replied \in BOOLEAN :
          process_quantity(u, q, sent, replied)
    \/ \E u \in Customers, text \in FlowQuantityTexts, sent, replied \in BOOLEAN :
          /\ TypedWithinCartBounds(u, text)
          /\ process_custom_quantity(u, text, sent, replied)
    \/ \E u \in Customers : show_cart(u)
    \/ \E u \in Customers, id \in 1..MaxCartItems : remove_from_cart(u, id)
    \/ \E u \in Customers : clear_cart(u)
    \/ \E p \in Products : deactivate_product(p)
    \/ \E p \in Products : delete_product(p)

\* The cart handlers while an administrator deactivates or deletes a product.
SpecCatalogFlow == Init /\ [][NextCatalogFlow]_vars

\* ------------------------------------------------------ checking out again
\* The customer holds a cart and checks out, and when that conversation has
\* ended checks out again; nothing else touches the cart or the catalog. The
\* order budget is one above the bound, so that a second order can be placed.
InitReorder ==
    /\ productExists = Products
    /\ productActive = Products
    /\ productPrice = InitialPrice
    /\ adminEdits = 0
    /\ cartItems \in FinalizeCarts \ {{}}
    /\ nextCartItemId = Cardinality(Products) + 1
    /\ orders = {}
    /\ orderItems = {}
    /\ nextOrderId = 1
    /\ fsmState = [u \in Users |-> NoState]
    /\ fsmData = [u \in Users |-> EmptyData]
    /\ offered = {}
    /\ task = [u \in Users |-> IdleTask]
    /\ suspended = [u \in Users |-> IdleTask]
    /\ shown = [u \in Users |-> {}]
    /\ message = [u \in Users |-> NoMessage]
    /\ lastReturn = NoCall

NextReorder ==
    \/ \E u \in Customers : checkout(u, TRUE)
    \/ \E u \in Customers : enter_delivery_data(u, TRUE)
    \/ \E u \in Customers : process_name(u, Name1, TRUE)
    \/ \E u \in Customers : process_phone(u, Phone11, TRUE, TRUE)
    \/ \E u \in Customers, waited, deleted, answered, apologized \in BOOLEAN :
          /\ WithinOrderBudget(u, MaxOrders + 1)
          /\ process_address(u, Address1, waited, deleted, answered, apologized)
    \/ \E u \in Customers, apologized \in BOOLEAN : process_address_create(u, apologized)
    \/ \E u \in Customers, fault \in SheetsFaults : process_address_export(u, fault)
    \/ \E u \in Customers, fault \in GatewayFaults, apologized \in BOOLEAN :
          process_address_pay(u, fault, apologized)
    \/ \E u \in Customers, deleted, answered, apologized \in BOOLEAN,
          fault \in UpdateFaults :
          process_address_finish(u, deleted, answered, apologized, fault)

SpecReorder == InitReorder /\ [][NextReorder]_vars

\* ------------------------------------------------- the subscription gate
\* chat_id as the configuration gives it: a username ("@..."), another string,
\* or a number; id is the numeric id of the channel it names.
ChannelIds == {1001, 1002}
ChatIds == [kind : {"username", "str", "int"}, id : ChannelIds]

\* ChatMember.status as Telegram reports it.
MemberStatuses == {"creator", "administrator", "member", "restricted", "left", "kicked"}

\* str(e) of the exceptions of the Telegram calls, word by word.
Inaccessible == <<"member", "list", "is", "inaccessible">>
ErrorMessages ==
    {<<"Bad", "Request:">> \o Inaccessible,
     <<"Bad", "Request:", "user", "not", "found">>,
     <<"Forbidden:", "bot", "was", "kicked">>,
     <<"member", "list">>,
     <<>>}

ChatReplies == [raised : {FALSE}, id : ChannelIds] \cup [raised : {TRUE}, error : ErrorMessages]
MemberReplies ==
    [raised : {FALSE}, status : MemberStatuses] \cup [raised : {TRUE}, error : ErrorMessages]
NotCalled == [raised |-> FALSE, called |-> FALSE]

\* "phrase in text"
Contains(text, phrase) ==
    \E i \in 0..(Len(text) - Len(phrase)) : SubSeq(text, i + 1, i + Len(phrase)) = phrase

\* An except block without the special case.
FailOpenNever(error_message) == FALSE

\* if "member list is inaccessible" in error_message: return True; else the
\* error is logged and False is returned.
FailOpen(error_message) == Contains(error_message, Inaccessible)

\* The try block of check_user_subscribed: chat is what bot.get_chat answers,
\* member what bot.get_chat_member answers. A username is resolved first, and
\* a failure of that returns False from the inner except block;
\* get_chat_member is asked with the numeric id, and its exception leaves the
\* block.
SubscriptionBody(user_id, chat_id, chat, member) ==
    IF chat_id.kind = "username" /\ chat.raised
    THEN [raised |-> FALSE, value |-> FALSE, get_chat |-> chat, get_chat_member |-> NotCalled]
    ELSE LET asked == IF chat_id.kind = "username" THEN chat ELSE NotCalled
         IN IF member.raised
            THEN [raised |-> TRUE, value |-> FALSE,
                  get_chat |-> asked, get_chat_member |-> member]
            ELSE [raised |-> FALSE,
                  value |-> member.status \in {"creator", "administrator", "member"},
                  get_chat |-> asked, get_chat_member |-> member]

\* check_user_subscribed: the outer except block catches what left the try
\* block and returns True or False by the text of the error.
check_user_subscribed(user_id, chat_id, chat, member) ==
    LET r == SubscriptionBody(user_id, chat_id, chat, member)
    IN IF r.raised
       THEN [r EXCEPT !.raised = FALSE, !.value = FailOpen(r.get_chat_member.error)]
       ELSE r

InitSubscription ==
    /\ productExists = Products
    /\ productActive = Products
    /\ productPrice = InitialPrice
    /\ adminEdits = 0
    /\ cartItems = {}
    /\ nextCartItemId = 1
    /\ orders = {}
    /\ orderItems = {}
    /\ nextOrderId = 1
    /\ fsmState = [u \in Users |-> NoState]
    /\ fsmData = [u \in Users |-> EmptyData]
    /\ offered = {}
    /\ task = [u \in Users |-> IdleTask]
    /\ suspended = [u \in Users |-> IdleTask]
    /\ shown = [u \in Users |-> {}]
    /\ message = [u \in Users |-> NoMessage]
    /\ lastReturn = NoCall

\* One call of check_user_subscribed.
check_user_subscribed_call(user_id, chat_id, chat, member) ==
    /\ IF chat.raised THEN TRUE ELSE chat.id = chat_id.id
    /\ LET r == check_user_subscribed(user_id, chat_id, chat, member)
       IN lastReturn' = [call |-> "check_user_subscribed", user_id |-> user_id,
                         chat_id |-> chat_id, raised |-> r.raised, value |-> r.value,
                         get_chat |-> r.get_chat, get_chat_member |-> r.get_chat_member]
    /\ UNCHANGED <<catalogVars, cartVars, orderVars, fsmVars, offered, task, suspended, shown, message>>

NextSubscription ==
    \E user_id \in Users, chat_id \in ChatIds, chat \in ChatReplies, member \in MemberReplies :
       check_user_subscribed_call(user_id, chat_id, chat, member)

SpecSubscription == InitSubscription /\ [][NextSubscription]_vars

\* ------------------------------------------------------ concurrent updates
\* Dispatcher.start_polling handles every update in a task of its own and the
\* FSM storage takes no lock per user, so a handler that waits at an await
\* gives way to another handler of the same user. task[u] is the handler that
\* runs, suspended[u] the one that waits meanwhile; switch is the event loop
\* going from one to the other.
switch(u) ==
    /\ Waiting(task[u]) \/ Waiting(suspended[u])
    /\ task' = [task EXCEPT ![u] = suspended[u]]
    /\ suspended' = [suspended EXCEPT ![u] = task[u]]
    /\ UNCHANGED <<catalogVars, cartVars, orderVars, fsmVars, offered, shown, message,
                   lastReturn>>

\* process_phone up to the await of message.answer: the text matched and
\* update_data stored the normalized phone.
process_phone_stored(u, text) ==
    /\ ~InFlight(u)
    /\ fsmState[u] = waiting_for_phone
    /\ text # None
    /\ PhoneMatches(RemoveNonDigits(Strip(text)))
    /\ Exit(u, fsmState[u],
            [fsmData[u] EXCEPT !.phone = NormalizePhone(RemoveNonDigits(Strip(text)))],
            [IdleTask EXCEPT !.pc = "answer"], {})
    /\ UNCHANGED <<catalogVars, cartVars, orderVars, offered>>
    /\ message' = [message EXCEPT ![u] = text]
    /\ UNCHANGED lastReturn

\* process_phone resumed when message.answer returned or raised:
\* set_state(waiting_for_address) on the storage as it is by then, or the
\* except block.
process_phone_answered(u, sent, replied) ==
    /\ task[u].pc = "answer"
    /\ IF sent
       THEN Exit(u, waiting_for_address, fsmData[u], IdleTask, {})
       ELSE process_phone_except(u, fsmData[u], replied)
    /\ UNCHANGED <<catalogVars, cartVars, orderVars, offered>>
    /\ UNCHANGED <<message, lastReturn>>

\* The customer has given a name and is asked for the phone.
InitRace ==
    /\ productExists = Products
    /\ productActive = Products
    /\ productPrice = InitialPrice
    /\ adminEdits = 0
    /\ cartItems \in FinalizeCarts
    /\ nextCartItemId = Cardinality(Products) + 1
    /\ orders = {}
    /\ orderItems = {}
    /\ nextOrderId = 1
    /\ fsmState = [u \in Users |-> IF u = "u1" THEN waiting_for_phone ELSE NoState]
    /\ fsmData = [u \in Users |->
                    IF u = "u1" THEN [EmptyData EXCEPT !.name = Name1] ELSE EmptyData]
    /\ offered = {"u1"}
    /\ task = [u \in Users |-> IdleTask]
    /\ suspended = [u \in Users |-> IdleTask]
    /\ shown = [u \in Users |-> {}]
    /\ message = [u \in Users |-> IF u = "u1" THEN Name1 ELSE NoMessage]
    /\ lastReturn = NoCall

NextRace ==
    \/ \E u \in Customers, text \in {Phone11, Phone10} : process_phone_stored(u, text)
    \/ \E u \in Customers, sent, replied \in BOOLEAN : process_phone_answered(u, sent, replied)
    \/ \E u \in Customers, p \in Products : add_to_cart(u, p)
    \/ \E u \in Customers, q \in QuickQuantities \cup {Other}, sent, replied \in BOOLEAN :
          process_quantity(u, q, sent, replied)
    \/ \E u \in Customers : switch(u)

\* The phone stage with the updates of the customer handled concurrently.
SpecRace == InitRace /\ [][NextRace]_vars

\* The address stage with the updates of the customer handled concurrently:
\* the customer is at waiting_for_address, entered once, and every address
\* message that arrives before the state is cleared starts a process_address.
NextDouble ==
    \/ \E u \in Customers, text \in AddressTexts, waited, deleted, answered, apologized \in BOOLEAN :
          /\ WithinOrderBudget(u, MaxOrders + 1)
          /\ process_address(u, text, waited, deleted, answered, apologized)
    \/ \E u \in Customers, apologized \in BOOLEAN : process_address_create(u, apologized)
    \/ \E u \in Customers, fault \in SheetsFaults : process_address_export(u, fault)
    \/ \E u \in Customers, fault \in GatewayFaults, apologized \in BOOLEAN :
          process_address_pay(u, fault, apologized)
    \/ \E u \in Customers, deleted, answered, apologized \in BOOLEAN,
          fault \in UpdateFaults :
          process_address_finish(u, deleted, answered, apologized, fault)
    \/ \E u \in Customers : switch(u)

SpecDouble == InitFinalize /\ [][NextDouble]_vars

\* The finalization while the customer's other updates and the catalog admin
\* go on: lines are removed and the cart is cleared while a process_address
\* waits at an await, prices change and products are deleted.
NextSnapshot ==
    \/ \E u \in Customers :
          /\ WithinOrderBudget(u, MaxOrders)
          /\ process_address(u, Address1, TRUE, TRUE, TRUE, TRUE)
    \/ \E u \in Customers : process_address_create(u, TRUE)
    \/ \E u \in Customers : process_address_export(u, "none")
    \/ \E u \in Customers : process_address_pay(u, "none", TRUE)
    \/ \E u \in Customers : process_address_finish(u, TRUE, TRUE, TRUE, "none")
    \/ \E u \in Customers : switch(u)
    \/ \E u \in Customers, id \in 1..MaxCartItems : remove_from_cart(u, id)
    \/ \E u \in Customers : clear_cart(u)
    \/ \E p \in Products, price \in Prices : change_price(p, price)
    \/ \E p \in Products : delete_product(p)

\* Every Telegram call and every service call succeeds here; their failures
\* are the subject of SpecFinalize.
SpecSnapshot == InitFinalize /\ [][NextSnapshot]_vars

\* ---------------------------------------------- overlapping cart additions
\* add_item_to_cart is a synchronous function run by sync_to_async: a query
\* for the line, then a save or a create, with no transaction, no row lock
\* and no update in the database. Two calls that overlap take these two steps
\* each, in any order.

\* The query CartItem.objects.filter(user_id=..., product_id=...).first().
add_item_to_cart_read(u, p, q) ==
    /\ ~InFlight(u)
    /\ WithinStoreBounds(u, p, q)
    /\ LET found == {r \in cartItems : r.user_id = u /\ r.product_id = p}
           cart_item == IF found = {} THEN <<>>
                        ELSE <<CHOOSE r \in found : \A o \in found : r.id <= o.id>>
       IN task' = [task EXCEPT ![u] =
                     [IdleTask EXCEPT !.pc = "write",
                                      !.add = [product_id |-> p, quantity |-> q,
                                               cart_item |-> cart_item]]]
    /\ UNCHANGED <<catalogVars, cartVars, orderVars, fsmVars, offered, suspended, shown,
                   message, lastReturn>>

\* The write: cart_item.quantity += quantity and save(), which updates the
\* row of that id with the quantity computed from the row as read (and
\* inserts it again when the row is gone); or create(), which the uniqueness
\* of (user_id, product) refuses when the pair has a line by now.
add_item_to_cart_write(u) ==
    /\ task[u].pc = "write"
    /\ LET a == task[u].add
           taken == \E r \in cartItems : r.user_id = u /\ r.product_id = a.product_id
       IN IF a.cart_item # <<>>
          THEN /\ cartItems' =
                    {r \in cartItems : r.id # a.cart_item[1].id} \cup
                    {[a.cart_item[1] EXCEPT !.quantity = a.cart_item[1].quantity + a.quantity]}
               /\ UNCHANGED nextCartItemId
               /\ lastReturn' = [call |-> "add_item_to_cart", user_id |-> u,
                                 product_id |-> a.product_id, quantity |-> a.quantity,
                                 value |-> "True"]
          ELSE IF taken
          THEN /\ UNCHANGED cartVars
               /\ lastReturn' = [call |-> "add_item_to_cart", user_id |-> u,
                                 product_id |-> a.product_id, quantity |-> a.quantity,
                                 value |-> "IntegrityError"]
          ELSE /\ cartItems' = cartItems \cup
                    {[id |-> nextCartItemId, user_id |-> u, product_id |-> a.product_id,
                      quantity |-> a.quantity]}
               /\ nextCartItemId' = nextCartItemId + 1
               /\ lastReturn' = [call |-> "add_item_to_cart", user_id |-> u,
                                 product_id |-> a.product_id, quantity |-> a.quantity,
                                 value |-> "True"]
    /\ task' = [task EXCEPT ![u] = IdleTask]
    /\ UNCHANGED <<catalogVars, orderVars, fsmVars, offered, suspended, shown, message>>

NextCartRace ==
    \/ \E u \in Customers, p \in Products, q \in StoreQuantities : add_item_to_cart_read(u, p, q)
    \/ \E u \in Customers : add_item_to_cart_write(u)
    \/ \E u \in Customers : switch(u)

\* Two callers of add_item_to_cart for one user, from an empty cart.
SpecCartRace == InitCart /\ [][NextCartRace]_vars

\* ================================================================ claims
Cleared(stage, data) == stage = NoState /\ data = EmptyData
Finished(u) == task[u].pc \in {"done", "raised"}
Called(u, step) == \E i \in 1..Len(task[u].steps) : task[u].steps[i] = step
OrderIds(rows) == {o.id : o \in rows}
ItemsOf(rows, order_id) == {r \in rows : r.order_id = order_id}

RECURSIVE SumRows(_)
SumRows(rows) ==
    IF rows = {} THEN 0
    ELSE LET r == CHOOSE x \in rows : TRUE
         IN r.price * r.quantity + SumRows(rows \ {r})

\* C1: create_order is all-or-nothing. When the call ends and a product of
\* some item is missing at call time, or the call raises for any reason, the
\* Order and OrderItem tables are what they were before the call; when it
\* returns, the new Order row exists together with exactly one new OrderItem
\* row per input item, carrying that item's product, quantity and price.
C1_CreateOrderAllOrNothing ==
    [][\A u \in Users :
         (task[u].pc = "create" /\ task'[u].pc # "create") =>
           LET items == task[u].cart_items
               missing == \E i \in 1..Len(items) : items[i].product_id \notin productExists
               returned == task'[u].pc = "export"
               new == orderItems' \ orderItems
           IN /\ missing => ~returned
              /\ ~returned => orders' = orders /\ orderItems' = orderItems
              /\ returned =>
                   /\ OrderIds(orders' \ orders) = {task'[u].order_id}
                   /\ orders \subseteq orders'
                   /\ orderItems \subseteq orderItems'
                   /\ Cardinality(new) = Len(items)
                   /\ \A i \in 1..Len(items) :
                        \E r \in new : /\ r.order_id = task'[u].order_id
                                       /\ r.id = <<r.order_id, i>>
                                       /\ r.product_id = items[i].product_id
                                       /\ r.quantity = items[i].quantity
                                       /\ r.price = items[i].price]_vars

\* C1 witness: create_order was called with two items, the first product
\* present and the second deleted, and it raised leaving both tables empty.
C1_Witness ==
    LET t == task["u1"]
    IN /\ Finished("u1")
       /\ t.steps = <<"total">>
       /\ t.user_data.address # None
       /\ Len(t.cart_items) = 2
       /\ t.cart_items[1].product_id \in productExists
       /\ t.cart_items[2].product_id \notin productExists
       /\ orders = {}
       /\ orderItems = {}

\* C2: for every order, total_amount equals the sum of price x quantity over
\* the order's persisted OrderItem rows, in every state after its creation.
C2_TotalEqualsItemSum ==
    \A o \in orders : o.total_amount = SumRows(ItemsOf(orderItems, o.id))

\* C3: within one finalization the calls happen in the order total,
\* create_order, export, create_payment, update_order_payment_info; the export
\* and the payment are attempted only with the order committed, and the payment
\* data is stored only after the gateway answered.
FinalizationOrder ==
    <<"total", "create_order", "export", "create_payment", "update_order_payment_info">>
IsPrefix(s, t) == Len(s) <= Len(t) /\ SubSeq(t, 1, Len(s)) = s
C3_StepsInOrder ==
    \A u \in Users :
      /\ IsPrefix(task[u].steps, FinalizationOrder)
      /\ (Called(u, "export") \/ Called(u, "create_payment")) =>
           task[u].order_id \in OrderIds(orders)
      /\ task[u].pc \in {"export", "pay"} => task[u].order_id \in OrderIds(orders)
      /\ Called(u, "update_order_payment_info") =>
           Called(u, "create_payment") /\ task[u].payment_result.Success

\* C3 witness: a finalization that made all five calls.
C3_Witness == task["u1"].pc = "done" /\ task["u1"].steps = FinalizationOrder

\* C4: pressing the cancel button (callback "cart", handled by show_cart)
\* while the stage is waiting_for_name, waiting_for_phone or
\* waiting_for_address leaves the user with no stage and empty scratch data,
\* and creates no order.
C4_CancelReturnsToIdle ==
    [][\A u \in Users :
         (fsmState[u] \in CheckoutStages /\ show_cart(u)) =>
           /\ Cleared(fsmState'[u], fsmData'[u])
           /\ orders' = orders]_vars

\* A run of process_address that ends in this step.
ProcessAddressEnds(u) ==
    /\ \/ \E waited, deleted, answered, apologized \in BOOLEAN :
            process_address(u, message'[u], waited, deleted, answered, apologized)
       \/ \E apologized \in BOOLEAN : process_address_create(u, apologized)
       \/ \E fault \in GatewayFaults, apologized \in BOOLEAN :
            process_address_pay(u, fault, apologized)
       \/ \E deleted, answered, apologized \in BOOLEAN, fault \in UpdateFaults :
            process_address_finish(u, deleted, answered, apologized, fault)
    /\ task'[u].pc \in {"done", "raised"}

\* C5: on every exit path of process_address, a failure while sending any
\* message included, the conversation state is cleared: no stage, empty
\* scratch data.
C5_AddressHandlerClearsState ==
    [][\A u \in Users :
         ProcessAddressEnds(u) => Cleared(fsmState'[u], fsmData'[u])]_vars

\* C6: when process_name or process_phone hits an exception (the reply cannot
\* be sent, the message carries no text) the user ends with the state
\* cleared and is never left at a waiting_for_* stage.
C6_NameAndPhoneAbortCleared ==
    [][\A u \in Users :
         /\ process_name(u, message'[u], FALSE) => Cleared(fsmState'[u], fsmData'[u])
         /\ \A sent, replied \in BOOLEAN :
              (/\ process_phone(u, message'[u], sent, replied)
               /\ (message'[u] = None \/ ~sent)) =>
                Cleared(fsmState'[u], fsmData'[u])]_vars

\* The digits of a text, and the ten-digit national number of a phone text:
\* its digits without the optional leading country digit 7 or 8.
IsDigit(c) == c \in Digits
DigitsOf(text) == SelectSeq(text, IsDigit)
HasPhoneDigits(text) ==
    LET d == DigitsOf(text)
    IN \/ Len(d) = NationalLen
       \/ Len(d) = NationalLen + 1 /\ Head(d) \in {"7", "8"}
NationalNumber(text) ==
    LET d == DigitsOf(text)
    IN IF Len(d) = NationalLen + 1 THEN Tail(d) ELSE d

\* C7: for every accepted phone input the stored phone is "+7" followed by
\* the ten-digit national number of the input, so every stored phone is a plus
\* sign, the country digit 7 and ten digits.
C7_StoredPhoneCanonical ==
    [][\A u \in Users, sent, replied \in BOOLEAN :
         (/\ process_phone(u, message'[u], sent, replied)
          /\ message'[u] # None
          /\ HasPhoneDigits(message'[u])
          /\ fsmData'[u].phone # Absent) =>
           /\ fsmData'[u].phone = <<"+", "7">> \o NationalNumber(message'[u])
           /\ Len(fsmData'[u].phone) = NationalLen + 2]_vars

\* C8 as stated: a phone input whose digits are not ten digits with an
\* optional leading 7 or 8 is rejected; the stage stays waiting_for_phone and
\* the scratch data is unchanged.
C8_RejectedKeepsStage ==
    [][\A u \in Users, sent, replied \in BOOLEAN :
         (/\ process_phone(u, message'[u], sent, replied)
          /\ message'[u] # None
          /\ ~HasPhoneDigits(message'[u])) =>
           /\ fsmState'[u] = waiting_for_phone
           /\ fsmData'[u] = fsmData[u]]_vars

\* C8 amended: such an input is never stored and never moves the stage on.
\* When the re-prompt is delivered the stage stays waiting_for_phone with the
\* scratch data unchanged and the handler is ready for the next input; when
\* the re-prompt cannot be sent the except block clears the state if its
\* reply is delivered, and leaves stage and scratch data as they were if not.
C8_RejectedNeverStored ==
    [][\A u \in Users, sent, replied \in BOOLEAN :
         (/\ process_phone(u, message'[u], sent, replied)
          /\ message'[u] # None
          /\ ~HasPhoneDigits(message'[u])) =>
           /\ fsmState'[u] # waiting_for_address
           /\ fsmData'[u].phone \in {Absent, fsmData[u].phone}
           /\ sent => /\ fsmState'[u] = waiting_for_phone
                      /\ fsmData'[u] = fsmData[u]
                      /\ shown'[u] = {"bad_phone"}
                      /\ ~InFlight(u)'
           /\ (~sent /\ replied) => Cleared(fsmState'[u], fsmData'[u])
           /\ (~sent /\ ~replied) => /\ fsmState'[u] = waiting_for_phone
                                     /\ fsmData'[u] = fsmData[u]]_vars

\* C8 witness: an input was rejected with the re-prompt delivered.
C8_Witness ==
    /\ message["u1"] # None
    /\ ~HasPhoneDigits(message["u1"])
    /\ shown["u1"] = {"bad_phone"}
    /\ fsmState["u1"] = waiting_for_phone
    /\ fsmData["u1"].phone = Absent

\* C9 as stated: when the gateway's answer has Success false, the order
\* stays persisted and the user is shown the manual-follow-up message, not the
\* generic error.
C9_RefusedPaymentDegraded ==
    \A u \in Users :
      (Finished(u) /\ Called(u, "create_payment") /\ ~task[u].payment_result.Success) =>
        /\ task[u].order_id \in OrderIds(orders)
        /\ shown[u] = {"degraded"}

\* C9 amended: when the gateway's answer has Success false the order stays
\* persisted with no payment data; the manual-follow-up message is what the
\* user sees when the wait message was deleted and that message was delivered;
\* when either Telegram call fails the user sees the generic error, or nothing
\* when that cannot be sent either.
C9_RefusedPaymentOutcome ==
    [][\A u \in Users, deleted, answered, apologized \in BOOLEAN, fault \in UpdateFaults :
         (/\ process_address_finish(u, deleted, answered, apologized, fault)
          /\ ~task[u].payment_result.Success) =>
           /\ \E o \in orders' : o.id = task[u].order_id /\ o.payment_id = 0
           /\ orders' = orders
           /\ ~Called(u, "update_order_payment_info")'
           /\ (deleted /\ answered) =>
                shown'[u] = {"degraded"} /\ task'[u].pc = "done"
           /\ (~(deleted /\ answered) /\ apologized) =>
                shown'[u] = {"error"} /\ task'[u].pc = "done"
           /\ (~(deleted /\ answered) /\ ~apologized) =>
                shown'[u] = {} /\ task'[u].pc = "raised"]_vars

\* C9 witness: a finalization whose payment was refused ended with the
\* manual-follow-up message and the order in the table.
C9_Witness ==
    /\ task["u1"].pc = "done"
    /\ Called("u1", "create_payment")
    /\ ~task["u1"].payment_result.Success
    /\ shown["u1"] = {"degraded"}
    /\ task["u1"].order_id \in OrderIds(orders)

\* C10: the export never raises past its boundary: whatever happens inside,
\* its result is True or False, and the finalization goes on to the payment.
C10_ExportNeverRaises ==
    [][\A u \in Users :
         (task[u].pc = "export" /\ task'[u] # task[u]) =>
           /\ task'[u].export \in {"True", "False"}
           /\ task'[u].pc = "pay"
           /\ fsmState'[u] = fsmState[u]
           /\ orders' = orders]_vars

\* C10 witness: the export failed and the finalization still ended with the
\* payment link.
C10_Witness ==
    /\ task["u1"].pc = "done"
    /\ task["u1"].export = "False"
    /\ task["u1"].payment_result.Success
    /\ shown["u1"] = {"succeeded"}

\* C11: when create_order fails during a finalization, the flow ends with
\* the generic retry-later message and the state cleared, no Order or OrderItem
\* row of the attempt exists, and neither the export nor create_payment nor
\* update_order_payment_info is called in that attempt.
C11_CreateOrderFailureAborts ==
    [][\A u \in Users, apologized \in BOOLEAN :
         (process_address_create(u, apologized) /\ task'[u].pc # "export") =>
           /\ Cleared(fsmState'[u], fsmData'[u])
           /\ shown'[u] = {"error"}
           /\ orders' = orders
           /\ orderItems' = orderItems
           /\ task'[u].pc \in {"done", "raised"}
           /\ task'[u].steps = <<"total">>]_vars

\* C12: once create_order has returned an order id to a finalization, that
\* order and one line item per item of the cart exist in every later state.
C12_OrderStaysCommitted ==
    \A u \in Users :
      task[u].order_id # 0 =>
        /\ task[u].order_id \in OrderIds(orders)
        /\ Cardinality(ItemsOf(orderItems, task[u].order_id)) = Len(task[u].cart_items)

NetworkFailure(u) ==
    Called(u, "create_payment") /\ task[u].payment_result.Message = "error"

C15_UpdatePaymentInfo ==
    [][\A order_id \in OrderIdInputs, payment_id \in PaymentRefs,
          payment_url \in PaymentUrls, fault \in UpdateFaults :
         update_order_payment_info_call(order_id, payment_id, payment_url, fault) =>
           /\ lastReturn'.value \in {"True", "False"}
           /\ orderItems' = orderItems
           /\ IF order_id \notin OrderIds(orders) \/ fault = "error"
              THEN lastReturn'.value = "False" /\ orders' = orders
              ELSE /\ lastReturn'.value = "True"
                   /\ \E o \in orders :
                        /\ o.id = order_id
                        /\ orders' = (orders \ {o}) \cup
                             {[id |-> o.id, user_id |-> o.user_id, name |-> o.name,
                               phone |-> o.phone, address |-> o.address,
                               total_amount |-> o.total_amount,
                               payment_id |-> payment_id, payment_url |-> payment_url,
                               payment_status |-> "pending"]}]_vars

\* C15 witness: with two orders stored, one was updated and then a call with
\* an id that does not exist returned False.
C15_Witness ==
    /\ lastReturn.call = "update_order_payment_info"
    /\ lastReturn.order_id \notin OrderIds(orders)
    /\ lastReturn.value = "False"
    /\ Cardinality(orders) = 2
    /\ \E o \in orders : o.payment_id # 0
    /\ \E o \in orders : o.payment_id = 0

\* C16 as stated: when the gateway's answer has Success true, the
\* finalization ends with the payment link shown, whatever
\* update_order_payment_info does.
C16_AcceptedPaymentSucceeds ==
    \A u \in Users :
      (Finished(u) /\ Called(u, "create_payment") /\ task[u].payment_result.Success) =>
        /\ task[u].pc = "done"
        /\ shown[u] = {"succeeded"}

\* C16 amended: when the gateway's answer has Success true and the wait
\* message is deleted, update_order_payment_info is called and, whether it
\* stores the payment data or returns False, the payment link is sent: when
\* that message is delivered the finalization ends with the link shown and the
\* state cleared. A failure of the update never leads to the generic error
\* or to the manual-follow-up message; only a failure of a Telegram call
\* leads to the generic error.
C16_UpdateFailureNotFatal ==
    [][\A u \in Users, deleted, answered, apologized \in BOOLEAN, fault \in UpdateFaults :
         (/\ process_address_finish(u, deleted, answered, apologized, fault)
          /\ task[u].payment_result.Success) =>
           /\ shown'[u] # {"degraded"}
           /\ task[u].order_id \in OrderIds(orders')
           /\ deleted => Called(u, "update_order_payment_info")'
           /\ (deleted /\ fault = "error") => orders' = orders
           /\ (deleted /\ fault = "none") =>
                \E o \in orders' : /\ o.id = task[u].order_id
                                   /\ o.payment_id = task[u].order_id
                                   /\ o.payment_url = task[u].payment_result.PaymentURL
           /\ (deleted /\ answered) =>
                /\ shown'[u] = {"succeeded"}
                /\ task'[u].pc = "done"
                /\ Cleared(fsmState'[u], fsmData'[u])
           /\ shown'[u] = {"error"} => ~(deleted /\ answered)]_vars

\* C16 witness: the payment data could not be stored and the finalization
\* still ended with the payment link.
C16_Witness ==
    /\ task["u1"].pc = "done"
    /\ task["u1"].payment_result.Success
    /\ Called("u1", "update_order_payment_info")
    /\ \E o \in orders : o.id = task["u1"].order_id /\ o.payment_id = 0
    /\ shown["u1"] = {"succeeded"}

\* C17: whenever the stage is set to waiting_for_name the user's cart is
\* not empty, and a checkout begun with an empty cart creates no conversation
\* state.
C17_NameStageNeedsCart ==
    [][\A u \in Users :
         /\ (fsmState'[u] = waiting_for_name /\ fsmState[u] # waiting_for_name) =>
              get_cart_items(u) # <<>>
         /\ \A sent \in BOOLEAN :
              (checkout(u, sent) /\ get_cart_items(u) = <<>>) =>
                fsmState'[u] = fsmState[u] /\ fsmData'[u] = fsmData[u]]_vars

\* C18: a finalization uses the cart as it is when the address message is
\* handled; when the cart is empty at that moment the handler ends with the
\* state cleared and creates no order, so no order without line items ever
\* exists.
C18_EmptyCartAborts ==
    [][/\ \A u \in Users, waited, deleted, answered, apologized \in BOOLEAN :
            process_address(u, message'[u], waited, deleted, answered, apologized) =>
              /\ task'[u].pc = "create" =>
                   task'[u].cart_items = get_cart_items(u) /\ get_cart_items(u) # <<>>
              /\ get_cart_items(u) = <<>> =>
                   /\ task'[u].pc \in {"done", "raised"}
                   /\ Cleared(fsmState'[u], fsmData'[u])
                   /\ orders' = orders
       /\ \A o \in orders' : ItemsOf(orderItems', o.id) # {}]_vars

\* C19: the checkout stages are linear. The stage becomes waiting_for_phone
\* only from waiting_for_name, becomes waiting_for_address only from
\* waiting_for_phone with a phone accepted, a finalization starts only at
\* waiting_for_address, and waiting_for_name is not entered again from a
\* later stage.
C19_StagesLinear ==
    [][\A u \in Users :
         /\ (fsmState'[u] = waiting_for_phone /\ fsmState[u] # waiting_for_phone) =>
              fsmState[u] = waiting_for_name
         /\ (fsmState'[u] = waiting_for_address /\ fsmState[u] # waiting_for_address) =>
              /\ fsmState[u] = waiting_for_phone
              /\ message'[u] # None
              /\ HasPhoneDigits(message'[u])
         /\ (InFlight(u)' /\ ~InFlight(u)) => fsmState[u] = waiting_for_address
         /\ (fsmState'[u] = waiting_for_name /\ fsmState[u] # waiting_for_name) =>
              fsmState[u] \notin {waiting_for_phone, waiting_for_address}]_vars

\* A run, or a step of a run, of a checkout handler for user u.
HandlerStep(u) ==
    \/ \E sent \in BOOLEAN : process_name(u, message'[u], sent)
    \/ \E sent, replied \in BOOLEAN : process_phone(u, message'[u], sent, replied)
    \/ \E waited, deleted, answered, apologized \in BOOLEAN :
          process_address(u, message'[u], waited, deleted, answered, apologized)
    \/ \E apologized \in BOOLEAN : process_address_create(u, apologized)
    \/ \E fault \in SheetsFaults : process_address_export(u, fault)
    \/ \E fault \in GatewayFaults, apologized \in BOOLEAN :
          process_address_pay(u, fault, apologized)
    \/ \E deleted, answered, apologized \in BOOLEAN, fault \in UpdateFaults :
          process_address_finish(u, deleted, answered, apologized, fault)

\* What user u typed, as it may appear in the scratch data and in an order.
OwnData(u, data) ==
    /\ data.name \in {Absent, NameOf(u)}
    /\ data.phone \in {Absent, <<"+", "7">> \o NationalNumber(PhoneOf(u))}
    /\ data.address \in {Absent, AddressOf(u)}

\* C20: the conversation state is kept per user. A handler run for user a,
\* rejected input, errors and state clearing included, leaves the stage and
\* the scratch data of every other user unchanged; a user's scratch data holds
\* only what that user entered, and every order carries the name, phone and
\* address of the user it belongs to.
C20_UsersIsolated ==
    [][/\ \A a \in Users :
            HandlerStep(a) =>
              \A b \in Users \ {a} :
                /\ fsmState'[b] = fsmState[b]
                /\ fsmData'[b] = fsmData[b]
                /\ task'[b] = task[b]
       /\ \A b \in Users : OwnData(b, fsmData'[b])
       /\ \A o \in orders' :
            /\ o.name = NameOf(o.user_id)
            /\ o.phone = <<"+", "7">> \o NationalNumber(PhoneOf(o.user_id))
            /\ o.address = AddressOf(o.user_id)
       /\ \A r \in orderItems' :
            \E o \in orders', c \in cartItems :
              o.id = r.order_id /\ c.user_id = o.user_id /\ c.product_id = r.product_id]_vars

\* C20 witness: each of the two users ended a finalization, and each has an
\* order of their own that carries their own name and phone.
C20_Witness ==
    /\ \A u \in Users : task[u].pc = "done" /\ shown[u] \in {{"succeeded"}, {"degraded"}}
    /\ \A u \in Users :
         \E o \in orders : /\ o.user_id = u
                           /\ o.id = task[u].order_id
                           /\ o.name = NameOf(u)
                           /\ o.phone = <<"+", "7">> \o NationalNumber(PhoneOf(u))
    /\ Cardinality(orders) = Cardinality(Users)

\* The number of calls of update_order_payment_info a finalization has made.
UpdateCalls(u) ==
    Cardinality({i \in 1..Len(task[u].steps) :
                   task[u].steps[i] = "update_order_payment_info"})

\* C21 as stated: for every payment attempt of a finalization (each gateway
\* call), the payment fields of the order are updated exactly once, whatever
\* the gateway answered.
C21_PaymentFieldsUpdatedOnce ==
    \A u \in Users :
      (Finished(u) /\ Called(u, "create_payment")) =>
        /\ UpdateCalls(u) = 1
        /\ \E o \in orders : o.id = task[u].order_id /\ o.payment_id # 0

\* C21 amended: an order is immutable but for its payment fields, and these
\* are written at most once per payment attempt: update_order_payment_info is
\* called once when the gateway answered Success true and the wait message was
\* deleted, and it stores payment_id, payment_url and the status "pending"
\* unless order.save() fails; when the gateway answered Success false (a
\* refusal or a network failure) it is not called and the order stays as
\* create_order wrote it.
C21_PaymentFieldsUpdatedAtMostOnce ==
    [][/\ \A o \in orders :
            \E n \in orders' :
              /\ n.id = o.id
              /\ n.user_id = o.user_id
              /\ n.name = o.name
              /\ n.phone = o.phone
              /\ n.address = o.address
              /\ n.total_amount = o.total_amount
              /\ n # o =>
                   \E u \in Users :
                     /\ task[u].pc = "finish"
                     /\ task[u].order_id = o.id
                     /\ task[u].payment_result.Success
                     /\ UpdateCalls(u) = 0
                     /\ UpdateCalls(u)' = 1
                     /\ n.payment_id = task[u].order_id
                     /\ n.payment_url = task[u].payment_result.PaymentURL
                     /\ n.payment_status = "pending"
       /\ \A u \in Users, deleted, answered, apologized \in BOOLEAN, fault \in UpdateFaults :
            process_address_finish(u, deleted, answered, apologized, fault) =>
              /\ UpdateCalls(u) = 0
              /\ UpdateCalls(u)' <= 1
              /\ ~task[u].payment_result.Success =>
                   UpdateCalls(u)' = 0 /\ orders' = orders
              /\ (task[u].payment_result.Success /\ deleted) => UpdateCalls(u)' = 1
              /\ (task[u].payment_result.Success /\ deleted /\ fault = "none") =>
                   \E n \in orders' : n.id = task[u].order_id /\ n.payment_id # 0
              /\ (~deleted \/ fault = "error") => orders' = orders]_vars

\* C21 witness: a finalization whose payment was accepted ended with one call
\* of update_order_payment_info and the payment data in the order.
C21_Witness ==
    /\ Finished("u1")
    /\ Called("u1", "create_payment")
    /\ UpdateCalls("u1") = 1
    /\ \E o \in orders : /\ o.id = task["u1"].order_id
                         /\ o.payment_id = task["u1"].order_id
                         /\ o.payment_url = "url"
                         /\ o.payment_status = "pending"

\* The cart lines of an (owner, product) pair.
LinesOf(rows, u, p) == {r \in rows : r.user_id = u /\ r.product_id = p}

\* C22: adding a product to a cart that has no line of it creates one line
\* with the added quantity; adding it again adds the quantity to that line, so
\* two adds of q1 and q2 leave one line with q1+q2. No other line changes,
\* and there is at most one line per (owner, product) pair in every state.
C22_AddUpserts ==
    [][/\ \A u \in Users, p \in Products, q \in StoreQuantities :
            add_item_to_cart_call(u, p, q) =>
              LET before == LinesOf(cartItems, u, p)
                  after == LinesOf(cartItems', u, p)
              IN /\ Cardinality(after) = 1
                 /\ before = {} => \A r \in after : r.quantity = q
                 /\ \A b \in before :
                      \A r \in after : r.id = b.id /\ r.quantity = b.quantity + q
                 /\ cartItems' \ after = cartItems \ before
                 /\ lastReturn'.value = "True"
       /\ \A u \in Users, p \in Products : Cardinality(LinesOf(cartItems', u, p)) <= 1]_vars

\* C22 witness: the only line ever created holds quantity 3, which takes at
\* least two adds of the same product (an add puts in 1 or 2).
C22_Witness ==
    /\ lastReturn.call = "add_item_to_cart"
    /\ nextCartItemId = 2
    /\ cartItems = {[id |-> 1, user_id |-> "u1", product_id |-> 1, quantity |-> 3]}

\* C23: remove_item_from_cart(owner, line_id) deletes the line of that id
\* when it belongs to the owner and nothing else: a line of another user
\* stays, an id that does not exist changes nothing, the call returns True in
\* each case and every other cart line is unchanged.
C23_RemoveOwnLineOnly ==
    [][\A u \in Users, id \in CartItemIdInputs :
         remove_item_from_cart_call(u, id) =>
           /\ lastReturn'.value = "True"
           /\ cartItems' = cartItems \ {r \in cartItems : r.id = id /\ r.user_id = u}
           /\ \A r \in cartItems : r.user_id # u => r \in cartItems'
           /\ (~\E r \in cartItems : r.id = id) => cartItems' = cartItems
           /\ cartItems' \subseteq cartItems
           /\ nextCartItemId' = nextCartItemId]_vars

\* C23 witness: user u2 called the removal with the id of a line of user u1
\* while holding a line of their own, and both lines are still there.
C23_Witness ==
    /\ lastReturn.call = "remove_item_from_cart"
    /\ lastReturn.user_id = "u2"
    /\ \E r \in cartItems : r.id = lastReturn.cart_item_id /\ r.user_id = "u1"
    /\ \E r \in cartItems : r.user_id = "u2"

\* A text that reads as a decimal number, and the quantity of the user's line
\* of a product (0 when there is none).
IsNumberText(text) ==
    /\ text # None
    /\ text # <<>>
    /\ \A i \in 1..Len(text) : text[i] \in Digits
LineQuantity(rows, u, p) ==
    IF LinesOf(rows, u, p) = {} THEN 0
    ELSE (CHOOSE r \in LinesOf(rows, u, p) : TRUE).quantity

\* C24: at waiting_for_quantity, with every reply delivered, a typed text
\* that is not a number, or is a number below 1 or above 100, is rejected: the
\* stage stays waiting_for_quantity, the stored product id is kept and the
\* cart is unchanged; a number from 1 to 100 is added to the cart line of the
\* stored product.
C24_CustomQuantityBounds ==
    [][\A u \in Users, replied \in BOOLEAN :
         (/\ process_custom_quantity(u, message'[u], TRUE, replied)
          /\ message'[u] # None
          /\ fsmData[u].product_id # 0) =>
           LET text == message'[u]
               p == fsmData[u].product_id
           IN IF IsNumberText(text) /\ int(text) >= 1 /\ int(text) <= MAX_PRODUCT_QUANTITY
              THEN /\ Cardinality(LinesOf(cartItems', u, p)) = 1
                   /\ LineQuantity(cartItems', u, p) = LineQuantity(cartItems, u, p) + int(text)
              ELSE /\ fsmState'[u] = waiting_for_quantity
                   /\ fsmData'[u].product_id = p
                   /\ cartItems' = cartItems]_vars

\* A step of a run of process_address for user u.
FinalizationStep(u) ==
    \/ \E waited, deleted, answered, apologized \in BOOLEAN :
          process_address(u, message'[u], waited, deleted, answered, apologized)
    \/ \E apologized \in BOOLEAN : process_address_create(u, apologized)
    \/ \E fault \in SheetsFaults : process_address_export(u, fault)
    \/ \E fault \in GatewayFaults, apologized \in BOOLEAN :
          process_address_pay(u, fault, apologized)
    \/ \E deleted, answered, apologized \in BOOLEAN, fault \in UpdateFaults :
          process_address_finish(u, deleted, answered, apologized, fault)

\* The (product, quantity) pairs of a set of cart or order rows.
Contents(rows) == {<<r.product_id, r.quantity>> : r \in rows}

\* C25: no step of a finalization changes the CartItem table, whatever the
\* outcome, so the cart after a finalization is the cart before it; every
\* order a finalization creates holds the lines of that cart, and a checkout
\* that follows a successful one creates another order with the same items.
C25_FinalizationKeepsCart ==
    [][/\ \A u \in Users :
            FinalizationStep(u) =>
              /\ cartItems' = cartItems
              /\ nextCartItemId' = nextCartItemId
              /\ task'[u].pc \in {"done", "raised"} =>
                   get_cart_items(u)' = get_cart_items(u)
       /\ \A o \in orders' :
            Contents(ItemsOf(orderItems', o.id)) = Contents(UserRows(o.user_id)')]_vars

\* C25 witness: a second finalization ended with the payment link; the
\* customer has two orders, each with the lines the cart still holds.
C25_Witness ==
    /\ task["u1"].pc = "done"
    /\ shown["u1"] = {"succeeded"}
    /\ Cardinality({o \in orders : o.user_id = "u1"}) = 2
    /\ UserRows("u1") # {}
    /\ \A o \in orders : Contents(ItemsOf(orderItems, o.id)) = Contents(UserRows("u1"))

\* A finalization ended in one of the outcomes: Succeeded (the payment link),
\* DegradedSuccess (the manual-follow-up message) or Aborted (the cart-empty
\* or the generic error message), with the handler returned and the
\* conversation state cleared.
Outcome(u) ==
    /\ task[u].pc = "done"
    /\ Cleared(fsmState[u], fsmData[u])
    /\ shown[u] \in {{"succeeded"}, {"degraded"}, {"cart_empty"}, {"error"}}

\* C26: every finalization ends in exactly one of the outcomes Succeeded,
\* DegradedSuccess or Aborted, given that each awaited call returns or
\* raises: a handler that has ended has shown one outcome, and a handler in
\* flight leads to an ended one.
C26_FinalizationEndsInOutcome ==
    /\ [](\A u \in Customers : Finished(u) => Outcome(u))
    /\ \A u \in Customers : InFlight(u) ~> Outcome(u)

\* A message text that is present and not empty.
NonEmptyText(text) == text # None /\ text # <<>>

\* C27: at waiting_for_name only a non-empty text moves the stage on to
\* waiting_for_phone, and the name stored is that text; a message without
\* text leaves the stage at waiting_for_name; every order carries a non-empty
\* customer name.
C27_OnlyNonEmptyNameAdvances ==
    [][/\ \A u \in Users, sent \in BOOLEAN :
            process_name(u, message'[u], sent) =>
              /\ fsmState'[u] = waiting_for_phone =>
                   NonEmptyText(message'[u]) /\ fsmData'[u].name = message'[u]
              /\ ~NonEmptyText(message'[u]) => fsmState'[u] = waiting_for_name
       /\ \A o \in orders' : NonEmptyText(o.name)]_vars

\* C28: at waiting_for_address only a non-empty text starts a finalization:
\* after a message without text the handler does not go on to create_order,
\* create_order is never called with an absent address, and every order
\* carries a non-empty address.
C28_OnlyNonEmptyAddressFinalizes ==
    [][/\ \A u \in Users, waited, deleted, answered, apologized \in BOOLEAN :
            (/\ process_address(u, message'[u], waited, deleted, answered, apologized)
             /\ ~NonEmptyText(message'[u])) =>
              ~InFlight(u)'
       /\ \A u \in Users, apologized \in BOOLEAN :
            process_address_create(u, apologized) =>
              NonEmptyText(task[u].user_data.address)
       /\ \A o \in orders' : NonEmptyText(o.address)]_vars

\* C29: every cart line has a positive quantity in every state the cart
\* handlers reach: no sequence of quantity buttons, accepted typed
\* quantities, removals and clears leaves a line with quantity 0 or below.
C29_QuantityPositive == \A r \in cartItems : r.quantity >= 1

\* C29 witness: the typed quantity 1 was accepted and added; the cart holds
\* two lines, one of them with quantity 2.
C29_Witness ==
    /\ message["u1"] = Typed(1)
    /\ shown["u1"] = {"added"}
    /\ Cardinality(UserRows("u1")) = 2
    /\ \E r \in UserRows("u1") : r.quantity = 2

\* C30: the Amount sent to the gateway is an integer number of minor units
\* equal to 100 times the total of the finalization, which is also the
\* total_amount stored with the order: nothing is lost between the two.
C30_AmountInMinorUnits ==
    [][\A u \in Users, fault \in GatewayFaults, apologized \in BOOLEAN :
         process_address_pay(u, fault, apologized) =>
           /\ task'[u].Amount \in Nat
           /\ (10 ^ DecimalPlaces) * task'[u].Amount = 100 * task[u].total_sum
           /\ \E o \in orders :
                /\ o.id = task[u].order_id
                /\ (10 ^ DecimalPlaces) * task'[u].Amount = 100 * o.total_amount]_vars

\* C30 witness: the gateway was called for a total with a fraction (2.50),
\* and the Amount sent is 250.
C30_Witness ==
    /\ Called("u1", "create_payment")
    /\ task["u1"].total_sum = 250
    /\ task["u1"].Amount = 250

\* C31: a call of check_user_subscribed never raises; it returns True when
\* get_chat_member answers with the status creator, administrator or member,
\* and when get_chat_member fails with an error whose text says that the
\* member list is inaccessible; it returns False for every other status and
\* every other failure, a failure to resolve the username included.
MembershipQueryFailed(r) == r.get_chat_member.raised
AddsByButton(u) ==
    \E q \in QuickQuantities, sent, replied \in BOOLEAN :
       fsmData[u].product_id # 0 /\ process_quantity(u, q, sent, replied)

\* A step of process_custom_quantity that calls add_product_to_cart_message:
\* a product id is stored and the typed text is a number from 1 to 100.
AddsByText(u) ==
    \E text \in FlowQuantityTexts \ {None, <<SuperscriptTwo>>}, sent, replied \in BOOLEAN :
       /\ fsmData[u].product_id # 0
       /\ IsNumberText(text)
       /\ int(text) \in 1..MAX_PRODUCT_QUANTITY
       /\ process_custom_quantity(u, text, sent, replied)

\* C32: every run of add_product_to_cart and of add_product_to_cart_message
\* leaves the user with no stage and empty scratch data, whether the item was
\* added and confirmed, the adding failed, or the notice could not be sent.
C32_AddClearsState ==
    [][\A u \in Customers :
          (AddsByButton(u) \/ AddsByText(u)) => Cleared(fsmState'[u], fsmData'[u])]_vars

\* A typed quantity ended with the error notice and the state is cleared.
C32_Witness ==
    /\ shown["u1"] = {"add_error"}
    /\ message["u1"] # NoMessage
    /\ Cleared(fsmState["u1"], fsmData["u1"])

\* The keys that the scratch data holds.
HasName(data) == data.name # Absent
HasPhone(data) == data.phone # Absent

C34_StageImpliesDataConcurrently ==
    \A u \in Users :
       fsmState[u] = waiting_for_address => HasName(fsmData[u]) /\ HasPhone(fsmData[u])

\* A step of one of the user's cart handlers: a product chosen, a quantity
\* button pressed, a line removed, the cart cleared.
CartAction(u) ==
    \/ \E p \in Products : add_to_cart(u, p)
    \/ \E q \in QuickQuantities \cup {Other}, sent, replied \in BOOLEAN :
          process_quantity(u, q, sent, replied)
    \/ \E id \in 1..MaxCartItems : remove_from_cart(u, id)
    \/ clear_cart(u)

\* C35: a cart action of a user who is at waiting_for_name, waiting_for_phone
\* or waiting_for_address leaves the stage and the name and phone collected so
\* far as they were.
C35_CartActionsKeepCheckout ==
    [][\A u \in Customers :
          (fsmState[u] \in CheckoutStages /\ CartAction(u)) =>
             /\ fsmState'[u] = fsmState[u]
             /\ fsmData'[u].name = fsmData[u].name
             /\ fsmData'[u].phone = fsmData[u].phone]_vars

\* The handlers of a user that have called create_payment.
PaymentsInitiated(u) ==
    {t \in {task[u], suspended[u]} :
        \E i \in 1..Len(t.steps) : t.steps[i] = "create_payment"}

\* C36: after one entry into waiting_for_address the user has at most one
\* order, and at most one handler of the user has called create_payment,
\* also when two address messages are handled concurrently.
C36_OneOrderPerPass ==
    \A u \in Customers :
       /\ Cardinality({o \in orders : o.user_id = u}) <= 1
       /\ Cardinality(PaymentsInitiated(u)) <= 1

\* The rows and the items are the same lines: as many rows as items, and for
\* each item exactly one row with its product, its quantity and its price.
Corresponds(rows, items) ==
    /\ Cardinality(rows) = Len(items)
    /\ \A i \in 1..Len(items) :
          Cardinality({r \in rows : /\ r.product_id = items[i].product_id
                                    /\ r.quantity = items[i].quantity
                                    /\ r.price = items[i].price}) = 1

\* C37: the cart_items that process_address reads are the user's cart lines
\* of that moment with the catalog prices of that moment; when create_order
\* commits an order, its OrderItem rows are those items one to one (product,
\* quantity, price as read); and a cart action of the user, also one made
\* between the reading of the cart and create_order, changes no Order and no
\* OrderItem row.
C37_OrderItemsAreSnapshot ==
    [][\A u \in Customers :
          /\ (\E text \in AddressTexts, waited, deleted, answered, apologized \in BOOLEAN :
                process_address(u, text, waited, deleted, answered, apologized)) =>
               (task'[u].cart_items # <<>> =>
                  Corresponds({[product_id |-> r.product_id, quantity |-> r.quantity,
                                price |-> productPrice[r.product_id]] : r \in UserRows(u)},
                              task'[u].cart_items))
          /\ ((\E apologized \in BOOLEAN : process_address_create(u, apologized))
                /\ nextOrderId' # nextOrderId) =>
               /\ OrderIds(orders') = OrderIds(orders) \cup {nextOrderId}
               /\ Corresponds(ItemsOf(orderItems', nextOrderId), task[u].cart_items)
               /\ \A r \in orderItems : r \in orderItems'
          /\ CartAction(u) => orders' = orders /\ orderItems' = orderItems]_vars

\* An order holds two line items, one at a price that the catalog no longer
\* shows, and the customer's cart has been emptied since it was read.
C37_Witness ==
    /\ productExists = Products
    /\ UserRows("u1") = {}
    /\ \E o \in orders :
          /\ Cardinality(ItemsOf(orderItems, o.id)) = 2
          /\ \E r \in ItemsOf(orderItems, o.id) : r.price # productPrice[r.product_id]

C39_FailedAddKeepsCart ==
    [][\A u \in Customers :
          (AddsByButton(u) \/ AddsByText(u)) =>
             /\ shown'[u] = {"add_error"} => cartItems' = cartItems
             /\ get_product(fsmData[u].product_id) = NoProduct => cartItems' = cartItems]_vars

====
